---- MODULE Spec2Model ----
(***************************************************************************)
(* Model of the mipidsi display driver: the Builder (configuration,        *)
(* validation, reset, panel bring-up), the Display session (orientation,   *)
(* address window, pixel streaming, scrolling, sleep/wake) and the Model   *)
(* trait's default operations.                                             *)
(*                                                                         *)
(* Every handler is one action.  A handler's code is a straight line of    *)
(* fallible steps chained with `?`: it is written down as the sequence of  *)
(* pin, bus and delay events the handler performs when nothing fails (its  *)
(* "plan"), and Exec cuts the plan at the first failing step.  The input   *)
(* `f` of an action says which step of the plan fails (0: none).           *)
(***************************************************************************)
EXTENDS Integers, Sequences, FiniteSets, TLC

VARIABLES
    phase,      \* "builder": a Builder is held; "display": a Display is held;
                \* "failed": Builder::init returned Err (the builder is consumed);
                \* "released": Display::release returned the parts
    model,      \* the MODEL instance
    kind,       \* DI::KIND of the interface instance
    rst,        \* TRUE iff the reset pin is Some(..)
    options,    \* ModelOptions of the Builder / Display
    madctl,     \* Display::madctl (cached SetAddressMode)
    sleeping,   \* Display::sleeping
    call,       \* the last handler called that reaches the hardware (Builder::init
                \* or a Display operation), with its arguments
    result,     \* what that call returned
    events,     \* the pin, bus and delay events that call performed, in order
    built,      \* history: the Display as the last successful Builder::init
                \* returned it (its configuration, cached address mode and pin)
    framebuf    \* the RawFrameBuf held, if any: its buffer, width and height

vars == <<phase, model, kind, rst, options, madctl, sleeping, call, result, events, built,
          framebuf>>

\* no RawFrameBuf is held
NoFrameBuf == [some |-> FALSE]

---------------------------------------------------------------------------
(* Bounds of the model *)

\* display sizes are taken up to MaxInset below the framebuffer size, and
\* display offsets from 0..MaxInset (and 65535)
MaxInset == 1
\* requested rectangle coordinates are taken from 0..MaxCoord
MaxCoord == 1
\* pixel slices have at most MaxPixels words
MaxPixels == 1

---------------------------------------------------------------------------
(* Machine integers *)

U16_MAX == 65535
U16 == 65536

Min(a, b) == IF a < b THEN a ELSE b
Max(a, b) == IF a > b THEN a ELSE b

\* Faulty variant: the sum wraps modulo 2^16
wrapping_add(a, b) == (a + b) % U16

\* u16::saturating_add / u16::saturating_sub
saturating_add(a, b) == Min(a + b, U16_MAX)
saturating_sub(a, b) == Max(a - b, 0)

\* `x as u16` of a usize
as_u16(x) == x % U16

\* u32::from(u16): lossless
to_u32(x) == x

\* Faulty variant: the sum computed on u16, wrapping
add_u16_wrapping(a, b) == (a + b) % U16

\* `a + b` on u32, of two values that came from u16: at most 131070, so the
\* sum never reaches 2^32 and is the exact sum
add_u32(a, b) == a + b

\* u16::to_be_bytes
be_bytes(x) == <<x \div 256, x % 256>>

---------------------------------------------------------------------------
(* interface.rs: InterfaceKind *)

InterfaceKind == {"Serial4Line", "Parallel8Bit", "Parallel16Bit"}

---------------------------------------------------------------------------
(* options.rs, options/orientation.rs *)

Rotation == {"Deg0", "Deg90", "Deg180", "Deg270"}
Orientation == [rotation : Rotation, mirrored : BOOLEAN]
ColorOrder == {"Rgb", "Bgr"}
ColorInversion == {"Normal", "Inverted"}
RefreshOrder == [vertical : {"TopToBottom", "BottomToTop"},
                 horizontal : {"LeftToRight", "RightToLeft"}]

DefaultOrientation == [rotation |-> "Deg0", mirrored |-> FALSE]
DefaultRefreshOrder == [vertical |-> "TopToBottom", horizontal |-> "LeftToRight"]

\* MemoryMapping::from(orientation): the rotation's mapping, with the columns
\* (or, when rows and columns are swapped, the rows) reversed once more when
\* the orientation is mirrored.  The eight orientations give the eight
\* combinations of the three flags.
MappingOfRotation(r) ==
    CASE r = "Deg0"   -> [reverse_rows |-> FALSE, reverse_columns |-> FALSE, swap_rows_and_columns |-> FALSE]
      [] r = "Deg90"  -> [reverse_rows |-> FALSE, reverse_columns |-> TRUE,  swap_rows_and_columns |-> TRUE]
      [] r = "Deg180" -> [reverse_rows |-> TRUE,  reverse_columns |-> TRUE,  swap_rows_and_columns |-> FALSE]
      [] r = "Deg270" -> [reverse_rows |-> TRUE,  reverse_columns |-> FALSE, swap_rows_and_columns |-> TRUE]

MemoryMappingFrom(o) ==
    LET m == MappingOfRotation(o.rotation) IN
    IF ~o.mirrored THEN m
    ELSE IF m.swap_rows_and_columns
         THEN [m EXCEPT !.reverse_rows = ~m.reverse_rows]
         ELSE [m EXCEPT !.reverse_columns = ~m.reverse_columns]

---------------------------------------------------------------------------
(* models.rs and models/*.rs: the panels *)

Chips == {"GC9107", "ST7789", "RM67162"}

\* OnlyOneKindModel(kind) carries the one interface kind it accepts; the
\* chips have no field ("-").
Models == [name : Chips, only : {"-"}]
            \cup [name : {"OnlyOneKindModel"}, only : InterfaceKind]

FRAMEBUFFER_SIZE(m) ==
    CASE m.name = "GC9107"  -> <<128, 160>>
      [] m.name = "ST7789"  -> <<240, 320>>
      [] m.name = "RM67162" -> <<240, 536>>
      [] m.name = "OnlyOneKindModel" -> <<16, 16>>

\* Model::RESET_DURATION: the trait's default, which no model overrides
RESET_DURATION(m) == 10

\* ModelOptions::full_size::<M>()
full_size(m) ==
    [color_order    |-> "Rgb",
     orientation    |-> DefaultOrientation,
     invert_colors  |-> "Normal",
     refresh_order  |-> DefaultRefreshOrder,
     display_size   |-> FRAMEBUFFER_SIZE(m),
     display_offset |-> <<0, 0>>]

\* ModelOptions::with_all(display_size, display_offset)
with_all(size, offset) ==
    [color_order    |-> "Rgb",
     orientation    |-> DefaultOrientation,
     invert_colors  |-> "Normal",
     refresh_order  |-> DefaultRefreshOrder,
     display_size   |-> size,
     display_offset |-> offset]

\* Rotation::is_horizontal (options/orientation.rs): the rotation is by 90 or
\* 270 degrees
is_horizontal(r) == r \in {"Deg90", "Deg270"}

\* ModelOptions::display_size(): the configured size when the rotation is
\* horizontal, the swapped one otherwise
ModelOptions_display_size(o) ==
    IF is_horizontal(o.orientation.rotation)
    THEN o.display_size
    ELSE <<o.display_size[2], o.display_size[1]>>

---------------------------------------------------------------------------
(* Events: what a handler does to the reset pin, the bus and the delay     *)
(* source.  `ok` is FALSE on the step that returned Err.                   *)

\* Interface::send_command(op, args)
Cmd(op, args) == [ev |-> "cmd", op |-> op, args |-> args, ok |-> TRUE, by |-> "-"]
\* Interface::send_data_slice(words)
Data(words) == [ev |-> "data", op |-> 0, args |-> words, ok |-> TRUE, by |-> "-"]
\* DelayNs::delay_us(us); delay_ms(ms) waits ms * 1000 microseconds
DelayUs(us) == [ev |-> "delay", op |-> us, args |-> <<>>, ok |-> TRUE, by |-> "-"]
DelayMs(ms) == DelayUs(ms * 1000)
\* OutputPin::set_low / set_high on the reset pin
RstLow == [ev |-> "rst_low", op |-> 0, args |-> <<>>, ok |-> TRUE, by |-> "-"]
RstHigh == [ev |-> "rst_high", op |-> 0, args |-> <<>>, ok |-> TRUE, by |-> "-"]

\* delay_us returns (): every other step returns a Result
IsFallible(e) == e.ev # "delay"

\* The input p of a handler names the step of its plan that returns Err
\* (0: every step returns Ok)
CanFail(plan, p) == p = 0 \/ (p \in 1..Len(plan) /\ IsFallible(plan[p]))

\* Faulty variant: the error of step p is kept but the later steps are performed
Exec_Continue(plan, p) ==
    [i \in 1..Len(plan) |-> IF i = p THEN [plan[i] EXCEPT !.ok = FALSE] ELSE plan[i]]

\* The steps performed when step p fails: `?` returns at the first Err, so
\* the steps after it are not performed.
Exec(plan, p) ==
    IF p = 0 THEN plan
    ELSE [i \in 1..p |-> IF i = p THEN [plan[i] EXCEPT !.ok = FALSE] ELSE plan[i]]

---------------------------------------------------------------------------
(* dcs: the command descriptors (opcode, argument bytes) *)

SoftReset == Cmd(1, <<>>)
EnterSleepMode == Cmd(16, <<>>)
ExitSleepMode == Cmd(17, <<>>)
EnterNormalMode == Cmd(19, <<>>)
SetInvertMode(inv) == Cmd(IF inv = "Inverted" THEN 33 ELSE 32, <<>>)
SetDisplayOn == Cmd(41, <<>>)
SetColumnAddress(sx, ex) == Cmd(42, be_bytes(sx) \o be_bytes(ex))
SetPageAddress(sy, ey) == Cmd(43, be_bytes(sy) \o be_bytes(ey))
WriteMemoryStart == Cmd(44, <<>>)
SetScrollArea(tfa, vsa, bfa) == Cmd(51, be_bytes(tfa) \o be_bytes(vsa) \o be_bytes(bfa))
SetTearingEffect(te) ==
    Cmd(53, <<CASE te = "Off" -> 0 [] te = "Vertical" -> 1 [] te = "HorizontalAndVertical" -> 2>>)
SetScrollStart(off) == Cmd(55, be_bytes(off))
SetPixelFormat(pf) == Cmd(58, <<pf>>)
\* InterfaceExt::write_raw(op, args)
write_raw(op, args) == Cmd(op, args)

\* SetAddressMode::from(options): the MADCTL byte, derived from the color
\* order, the orientation (through its memory mapping) and the refresh order
SetAddressModeFrom(o) ==
    LET m == MemoryMappingFrom(o.orientation) IN
      (IF m.reverse_rows THEN 128 ELSE 0)
    + (IF m.reverse_columns THEN 64 ELSE 0)
    + (IF m.swap_rows_and_columns THEN 32 ELSE 0)
    + (IF o.refresh_order.vertical = "BottomToTop" THEN 16 ELSE 0)
    + (IF o.color_order = "Bgr" THEN 8 ELSE 0)
    + (IF o.refresh_order.horizontal = "RightToLeft" THEN 4 ELSE 0)

\* SetAddressMode::default()
SetAddressModeDefault == 0

\* write_command(madctl)
SetAddressMode(v) == Cmd(54, <<v>>)

\* PixelFormat::with_all(BitsPerPixel::from_rgb_color::<Rgb565>())
PixelFormatRgb565 == 85

---------------------------------------------------------------------------
(* models/*.rs: Model::init of each panel *)

\* Faulty variant: no check of the interface kind
Supported_Any(m, k) == TRUE

\* the interface kinds the init of a panel accepts (its first statement)
Supported(m, k) ==
    CASE m.name = "GC9107"  -> k \in {"Serial4Line", "Parallel8Bit"}
      [] m.name = "RM67162" -> k \in {"Serial4Line", "Parallel8Bit"}
      [] m.name = "ST7789"  -> k \in {"Serial4Line", "Parallel8Bit", "Parallel16Bit"}
      [] m.name = "OnlyOneKindModel" -> k = m.only

GC9107_init(o) ==
    << DelayMs(200),
       write_raw(254, <<>>), DelayMs(5),
       write_raw(239, <<>>), DelayMs(5),
       write_raw(176, <<192>>), write_raw(178, <<47>>), write_raw(179, <<3>>),
       write_raw(182, <<25>>), write_raw(183, <<1>>),
       SetAddressMode(SetAddressModeFrom(o)),
       write_raw(172, <<203>>), write_raw(171, <<14>>),
       write_raw(180, <<4>>),
       write_raw(168, <<25>>),
       SetPixelFormat(PixelFormatRgb565),
       write_raw(184, <<8>>),
       write_raw(232, <<36>>),
       write_raw(233, <<72>>),
       write_raw(234, <<34>>),
       write_raw(198, <<48>>), write_raw(199, <<24>>),
       write_raw(240, <<1, 43, 35, 60, 183, 18, 23, 96, 0, 6, 12, 23, 18, 31>>),
       write_raw(241, <<5, 46, 45, 68, 214, 21, 23, 160, 2, 13, 13, 26, 24, 31>>),
       SetInvertMode(o.invert_colors),
       ExitSleepMode, DelayMs(120),
       SetDisplayOn >>

RM67162_init(o) ==
    << write_raw(254, <<4>>), write_raw(106, <<0>>), write_raw(254, <<5>>),
       write_raw(254, <<7>>), write_raw(7, <<79>>), write_raw(254, <<1>>),
       write_raw(42, <<2>>), write_raw(43, <<115>>), write_raw(254, <<10>>),
       write_raw(41, <<16>>), write_raw(254, <<0>>), write_raw(81, <<175>>),
       write_raw(83, <<32>>), write_raw(53, <<0>>),
       SetPixelFormat(PixelFormatRgb565),
       write_raw(196, <<128>>),
       SetAddressMode(SetAddressModeFrom(o)),
       SetInvertMode(o.invert_colors),
       ExitSleepMode, DelayUs(120000),
       SetDisplayOn >>

ST7789_init(o) ==
    << DelayUs(150000),
       ExitSleepMode, DelayUs(10000),
       SetAddressMode(SetAddressModeFrom(o)),
       SetInvertMode(o.invert_colors),
       SetPixelFormat(PixelFormatRgb565), DelayUs(10000),
       EnterNormalMode, DelayUs(10000),
       SetDisplayOn,
       DelayUs(120000) >>

\* Faulty variant: the display switched on before the pixel format, the address mode
\* and the inversion are written
ILI948x_init_common_OnFirst(o, pixel_format) ==
    << ExitSleepMode,
       SetDisplayOn,
       SetPixelFormat(pixel_format),
       SetAddressMode(SetAddressModeFrom(o)),
       SetInvertMode(o.invert_colors),
       write_raw(182, <<2, 2, 59>>),
       EnterNormalMode,
       DelayUs(120000) >>

\* models/ili948x.rs: init_common(di, delay, options, pixel_format), the
\* bring-up shared by the ILI948x panels; it makes no check of the interface
ILI948x_init_common(o, pixel_format) ==
    << ExitSleepMode,
       SetPixelFormat(pixel_format),
       SetAddressMode(SetAddressModeFrom(o)),
       SetInvertMode(o.invert_colors),
       write_raw(182, <<2, 2, 59>>),
       EnterNormalMode,
       SetDisplayOn,
       DelayUs(120000) >>

\* tests::OnlyOneKindModel::init touches neither the bus nor the delay
OnlyOneKindModel_init(o) == << >>

\* the steps of Model::init after its interface-kind check
InitPlan(m, o) ==
    CASE m.name = "GC9107"  -> GC9107_init(o)
      [] m.name = "RM67162" -> RM67162_init(o)
      [] m.name = "ST7789"  -> ST7789_init(o)
      [] m.name = "OnlyOneKindModel" -> OnlyOneKindModel_init(o)

\* Faulty variant: the default value returned instead of the one written
InitMadctl_Default(m, o) == SetAddressModeDefault

\* the value Model::init returns in Ok(..)
InitMadctl(m, o) ==
    IF m.name = "OnlyOneKindModel" THEN SetAddressModeDefault ELSE SetAddressModeFrom(o)

---------------------------------------------------------------------------
(* models.rs: the Model trait's default methods *)

update_address_window(sx, sy, ex, ey) ==
    << SetColumnAddress(sx, ex), SetPageAddress(sy, ey) >>

\* Faulty variant: no settle delay after EnterSleepMode
Model_sleep_NoDelay == << EnterSleepMode >>

Model_sleep == << EnterSleepMode, DelayUs(120000) >>

\* Faulty variant: only the settle delay, no command
Model_wake_NoCommand == << DelayUs(120000) >>

Model_wake == << ExitSleepMode, DelayUs(120000) >>
write_memory_start == << WriteMemoryStart >>

---------------------------------------------------------------------------
(* builder.rs: Builder *)

NoCall == [op |-> "-", args |-> << >>]

\* no Display has been built yet / the Display that Builder::init returned
\* (again: the builder was made of parts that Display::release returned)
NoDisplay == [some |-> FALSE]
DisplayOf(o, v, hasRst, again) ==
    [some |-> TRUE, options |-> o, madctl |-> v, rst |-> hasRst, again |-> again]

\* Builder::new(model, di)
BuilderNew(m, k) ==
    /\ phase = "builder"
    /\ model = m
    /\ kind = k
    /\ rst = FALSE
    /\ options = full_size(m)
    /\ madctl = SetAddressModeDefault
    /\ sleeping = FALSE
    /\ call = NoCall
    /\ result = "-"
    /\ events = << >>
    /\ built = NoDisplay
    /\ framebuf = NoFrameBuf

\* what the setters and reset_pin leave alone
BuilderKeeps == UNCHANGED <<phase, model, kind, madctl, sleeping, call, result, events, built, framebuf>>

invert_colors(v) ==
    /\ phase = "builder"
    /\ options' = [options EXCEPT !.invert_colors = v]
    /\ UNCHANGED rst
    /\ BuilderKeeps

color_order(v) ==
    /\ phase = "builder"
    /\ options' = [options EXCEPT !.color_order = v]
    /\ UNCHANGED rst
    /\ BuilderKeeps

orientation(v) ==
    /\ phase = "builder"
    /\ options' = [options EXCEPT !.orientation = v]
    /\ UNCHANGED rst
    /\ BuilderKeeps

refresh_order(v) ==
    /\ phase = "builder"
    /\ options' = [options EXCEPT !.refresh_order = v]
    /\ UNCHANGED rst
    /\ BuilderKeeps

\* display_size(width: usize, height: usize) stores (width as u16, height as u16)
display_size(width, height) ==
    /\ phase = "builder"
    /\ options' = [options EXCEPT !.display_size = <<as_u16(width), as_u16(height)>>]
    /\ UNCHANGED rst
    /\ BuilderKeeps

display_offset(x, y) ==
    /\ phase = "builder"
    /\ options' = [options EXCEPT !.display_offset = <<x, y>>]
    /\ UNCHANGED rst
    /\ BuilderKeeps

\* Faulty variant: the new builder made with the default configuration
reset_pin_FullSize ==
    /\ phase = "builder"
    /\ rst' = TRUE
    /\ options' = full_size(model)
    /\ BuilderKeeps

reset_pin ==
    /\ phase = "builder"
    /\ rst' = TRUE
    /\ UNCHANGED options
    /\ BuilderKeeps

\* Faulty variant: the offset check left out
Validate_SizeOnly(m, o) ==
    LET width == o.display_size[1]
        height == o.display_size[2]
    IN  IF width = 0 \/ height = 0 \/ width > FRAMEBUFFER_SIZE(m)[1] \/ height > FRAMEBUFFER_SIZE(m)[2]
        THEN "Err(InvalidConfiguration(InvalidDisplaySize))"
        ELSE "Ok"

\* Faulty variant: the offset check made before the size check
Validate_OffsetFirst(m, o) ==
    LET width == o.display_size[1]
        height == o.display_size[2]
        max_width == FRAMEBUFFER_SIZE(m)[1]
        max_height == FRAMEBUFFER_SIZE(m)[2]
    IN  IF width + o.display_offset[1] > max_width \/ height + o.display_offset[2] > max_height
        THEN "Err(InvalidConfiguration(InvalidDisplayOffset))"
        ELSE IF width = 0 \/ height = 0 \/ width > max_width \/ height > max_height
        THEN "Err(InvalidConfiguration(InvalidDisplaySize))"
        ELSE "Ok"

\* Builder::init, lines 92-106: the two checks, on u32 values
Validate(m, o) ==
    LET width == to_u32(o.display_size[1])
        height == to_u32(o.display_size[2])
        offset_x == to_u32(o.display_offset[1])
        offset_y == to_u32(o.display_offset[2])
        max_width == to_u32(FRAMEBUFFER_SIZE(m)[1])
        max_height == to_u32(FRAMEBUFFER_SIZE(m)[2])
    IN  IF width = 0 \/ height = 0 \/ width > max_width \/ height > max_height
        THEN "Err(InvalidConfiguration(InvalidDisplaySize))"
        ELSE IF add_u32(width, offset_x) > max_width \/ add_u32(height, offset_y) > max_height
        THEN "Err(InvalidConfiguration(InvalidDisplayOffset))"
        ELSE "Ok"

\* Faulty variant: the pin released without the settle delay, and a SoftReset besides
ResetPlan_NoSettle(m, hasRst) ==
    IF hasRst
    THEN << RstLow, DelayUs(RESET_DURATION(m)), RstHigh, SoftReset >>
    ELSE << SoftReset >>

\* Builder::init, lines 108-120: hardware reset through the pin when there is
\* one, SoftReset otherwise
ResetPlan(m, hasRst) ==
    IF hasRst
    THEN << RstLow, DelayUs(RESET_DURATION(m)), RstHigh, DelayUs(10000) >>
    ELSE << SoftReset >>

\* who performed an event of Builder::init
By(who, plan) == [i \in 1..Len(plan) |-> [plan[i] EXCEPT !.by = who]]

\* Builder::init, lines 108-129: the reset, then Model::init (which returns
\* at once, before any step, on an interface kind it does not support)
BuildPlan(m, k, hasRst, o) ==
    By("reset", ResetPlan(m, hasRst))
        \o (IF Supported(m, k) THEN By("Model::init", InitPlan(m, o)) ELSE << >>)

\* Faulty variant: every failure reported as a bus failure
InitErrorOf_AllInterface(e) == "Err(Interface)"

\* map_err(InitError::ResetPin) / map_err(InitError::Interface) and the
\* conversion of ModelInitError
InitErrorOf(e) ==
    IF e.ev \in {"rst_low", "rst_high"} THEN "Err(ResetPin)" ELSE "Err(Interface)"

\* the value Builder::init returns, when step f of the plan fails
BuildResult(m, k, hasRst, o, f) ==
    LET plan == BuildPlan(m, k, hasRst, o) IN
    IF Validate(m, o) # "Ok" THEN Validate(m, o)
    ELSE IF f > 0 THEN InitErrorOf(plan[f])
    ELSE IF ~Supported(m, k) THEN "Err(InvalidConfiguration(UnsupportedInterface))"
    ELSE "Ok"

\* Faulty variant: the reset performed before the configuration is checked
BuildEvents_ResetFirst(m, k, hasRst, o, f) ==
    IF Validate(m, o) # "Ok" THEN By("reset", ResetPlan(m, hasRst))
    ELSE Exec(BuildPlan(m, k, hasRst, o), f)

\* the pin, bus and delay operations Builder::init performs
BuildEvents(m, k, hasRst, o, f) ==
    IF Validate(m, o) # "Ok" THEN << >> ELSE Exec(BuildPlan(m, k, hasRst, o), f)

\* Builder::init(delay_source): consumes the builder
BuilderInit(f) ==
    /\ phase = "builder"
    /\ IF Validate(model, options) # "Ok" THEN f = 0
       ELSE CanFail(BuildPlan(model, kind, rst, options), f)
    /\ result' = BuildResult(model, kind, rst, options, f)
    /\ events' = BuildEvents(model, kind, rst, options, f)
    /\ call' = [op |-> "init", args |-> << >>]
    /\ IF result' = "Ok"
       THEN /\ phase' = "display"
            /\ madctl' = InitMadctl(model, options)
            /\ sleeping' = FALSE
            /\ built' = DisplayOf(options, madctl', rst, built.some)
       ELSE /\ phase' = "failed"
            /\ UNCHANGED <<madctl, sleeping, built>>
    /\ UNCHANGED <<model, kind, rst, options, framebuf>>

---------------------------------------------------------------------------
(* lib.rs: Display *)

\* Faulty variant: a reversed offset counted from the far edge of the panel memory
\* without the size of the display
AddressWindow_ReverseNoSize(m, o, sx, sy, ex, ey) ==
    LET mapping == MemoryMappingFrom(o.orientation)
        fb == FRAMEBUFFER_SIZE(m)
        offset0 == o.display_offset
        offset1 == IF mapping.reverse_columns
                   THEN <<saturating_sub(fb[1], offset0[1]), offset0[2]>>
                   ELSE offset0
        offset2 == IF mapping.reverse_rows
                   THEN <<offset1[1], saturating_sub(fb[2], offset1[2])>>
                   ELSE offset1
        offset == IF mapping.swap_rows_and_columns
                  THEN <<offset2[2], offset2[1]>>
                  ELSE offset2
    IN  << saturating_add(sx, offset[1]),
           saturating_add(sy, offset[2]),
           saturating_add(ex, offset[1]),
           saturating_add(ey, offset[2]) >>

\* Faulty variant: rows and columns swapped before the reversal, so that the reversal
\* uses the other axis' offset
AddressWindow_SwapFirst(m, o, sx, sy, ex, ey) ==
    LET mapping == MemoryMappingFrom(o.orientation)
        fb == FRAMEBUFFER_SIZE(m)
        offset0 == IF mapping.swap_rows_and_columns
                   THEN <<o.display_offset[2], o.display_offset[1]>>
                   ELSE o.display_offset
        offset1 == IF mapping.reverse_columns
                   THEN <<saturating_sub(fb[1], saturating_add(o.display_size[1], offset0[1])),
                          offset0[2]>>
                   ELSE offset0
        offset == IF mapping.reverse_rows
                  THEN <<offset1[1],
                         saturating_sub(fb[2], saturating_add(o.display_size[2], offset1[2]))>>
                  ELSE offset1
    IN  << saturating_add(sx, offset[1]),
           saturating_add(sy, offset[2]),
           saturating_add(ex, offset[1]),
           saturating_add(ey, offset[2]) >>

\* Display::set_address_window, lines 121-141: the window sent to the panel
AddressWindow(m, o, sx, sy, ex, ey) ==
    LET mapping == MemoryMappingFrom(o.orientation)
        fb == FRAMEBUFFER_SIZE(m)
        offset0 == o.display_offset
        offset1 == IF mapping.reverse_columns
                   THEN <<saturating_sub(fb[1], saturating_add(o.display_size[1], offset0[1])),
                          offset0[2]>>
                   ELSE offset0
        offset2 == IF mapping.reverse_rows
                   THEN <<offset1[1],
                          saturating_sub(fb[2], saturating_add(o.display_size[2], offset1[2]))>>
                   ELSE offset1
        offset == IF mapping.swap_rows_and_columns
                  THEN <<offset2[2], offset2[1]>>
                  ELSE offset2
    IN  << saturating_add(sx, offset[1]),
           saturating_add(sy, offset[2]),
           saturating_add(ex, offset[1]),
           saturating_add(ey, offset[2]) >>

\* Display::set_address_window, lines 144-152
set_address_window(m, o, sx, sy, ex, ey) ==
    LET w == AddressWindow(m, o, sx, sy, ex, ey) IN
    By("Model::update_address_window", update_address_window(w[1], w[2], w[3], w[4]))

\* Faulty variant: the pixels streamed right after the address window
ShowRawDataPlan_NoMemoryStart(m, o, sx, sy, ex, ey, pixel_data) ==
    set_address_window(m, o, sx, sy, ex, ey)
        \o By("Display::show_raw_data", << Data(pixel_data) >>)

\* Display::show_raw_data, lines 88-91
ShowRawDataPlan(m, o, sx, sy, ex, ey, pixel_data) ==
    set_address_window(m, o, sx, sy, ex, ey)
        \o By("Model::write_memory_start", write_memory_start)
        \o By("Display::show_raw_data", << Data(pixel_data) >>)

\* the Result<(), DI::Error> of a Display operation
DisplayResult(f) == IF f = 0 THEN "Ok" ELSE "Err(Interface)"

DisplayKeeps == UNCHANGED <<phase, model, kind, rst, built, framebuf>>

\* Faulty variant: nothing sent to a panel that is asleep
show_raw_data_Gated(sx, sy, ex, ey, pixel_data, f) ==
    /\ phase = "display"
    /\ ~sleeping
    /\ LET plan == ShowRawDataPlan(model, options, sx, sy, ex, ey, pixel_data) IN
       /\ CanFail(plan, f)
       /\ events' = Exec(plan, f)
    /\ result' = DisplayResult(f)
    /\ call' = [op |-> "show_raw_data", args |-> <<sx, sy, ex, ey, pixel_data>>]
    /\ UNCHANGED <<options, madctl, sleeping>>
    /\ DisplayKeeps

\* Display::show_raw_data
show_raw_data(sx, sy, ex, ey, pixel_data, f) ==
    /\ phase = "display"
    /\ LET plan == ShowRawDataPlan(model, options, sx, sy, ex, ey, pixel_data) IN
       /\ CanFail(plan, f)
       /\ events' = Exec(plan, f)
    /\ result' = DisplayResult(f)
    /\ call' = [op |-> "show_raw_data", args |-> <<sx, sy, ex, ey, pixel_data>>]
    /\ UNCHANGED <<options, madctl, sleeping>>
    /\ DisplayKeeps

\* Model::update_options, lines 129-130
update_options(o) == << SetAddressMode(SetAddressModeFrom(o)) >>

\* The payload of the Ok(..) that Model::update_options returns: it is declared
\* `Result<(), DI::Error>`, so the payload is `()`, which is no address-mode
\* value (the address-mode values are 0..255)
Unit == -1
update_options_returns(o) == Unit

\* Faulty variant: the orientation stored only when the bus write succeeded
set_orientation_RollsBack(v, f) ==
    /\ phase = "display"
    /\ options' = IF f = 0 THEN [options EXCEPT !.orientation = v] ELSE options
    /\ LET plan == By("Model::update_options",
                      update_options([options EXCEPT !.orientation = v])) IN
       /\ CanFail(plan, f)
       /\ events' = Exec(plan, f)
    /\ result' = DisplayResult(f)
    /\ madctl' = IF f = 0 THEN update_options_returns(options') ELSE madctl
    /\ call' = [op |-> "set_orientation", args |-> <<v>>]
    /\ UNCHANGED sleeping
    /\ DisplayKeeps

\* Display::set_orientation: the orientation is stored before the bus is
\* written; `self.madctl = new_madctl` stores what update_options returned
set_orientation(v, f) ==
    /\ phase = "display"
    /\ options' = [options EXCEPT !.orientation = v]
    /\ LET plan == By("Model::update_options", update_options(options')) IN
       /\ CanFail(plan, f)
       /\ events' = Exec(plan, f)
    /\ result' = DisplayResult(f)
    /\ madctl' = IF f = 0 THEN update_options_returns(options') ELSE madctl
    /\ call' = [op |-> "set_orientation", args |-> <<v>>]
    /\ UNCHANGED sleeping
    /\ DisplayKeeps

\* Faulty variant: the flag set before the result of M::sleep is looked at
SleepFlag_Always(f, old) == TRUE

\* the flag Display::sleep stores after M::sleep(..).await? returned Ok
SleepFlag(f, old) == IF f = 0 THEN TRUE ELSE old
\* Faulty variant: the flag left as it was
WakeFlag_Kept(f, old) == old

\* the flag Display::wake stores after M::wake(..).await? returned Ok
WakeFlag(f, old) == IF f = 0 THEN FALSE ELSE old

sleep(f) ==
    /\ phase = "display"
    /\ LET plan == By("Model::sleep", Model_sleep) IN
       /\ CanFail(plan, f)
       /\ events' = Exec(plan, f)
    /\ result' = DisplayResult(f)
    /\ sleeping' = SleepFlag(f, sleeping)
    /\ call' = [op |-> "sleep", args |-> << >>]
    /\ UNCHANGED <<options, madctl>>
    /\ DisplayKeeps

wake(f) ==
    /\ phase = "display"
    /\ LET plan == By("Model::wake", Model_wake) IN
       /\ CanFail(plan, f)
       /\ events' = Exec(plan, f)
    /\ result' = DisplayResult(f)
    /\ sleeping' = WakeFlag(f, sleeping)
    /\ call' = [op |-> "wake", args |-> << >>]
    /\ UNCHANGED <<options, madctl>>
    /\ DisplayKeeps

\* Model::set_tearing_effect
set_tearing_effect(tearing_effect, f) ==
    /\ phase = "display"
    /\ LET plan == By("Model::set_tearing_effect", << SetTearingEffect(tearing_effect) >>) IN
       /\ CanFail(plan, f)
       /\ events' = Exec(plan, f)
    /\ result' = DisplayResult(f)
    /\ call' = [op |-> "set_tearing_effect", args |-> <<tearing_effect>>]
    /\ UNCHANGED <<options, madctl, sleeping>>
    /\ DisplayKeeps

\* Model::set_vertical_scroll_region, lines 171-181, on u16: in a build
\* without overflow checks the sum and the differences wrap
ScrollArea(m, top_fixed_area, bottom_fixed_area) ==
    LET rows == FRAMEBUFFER_SIZE(m)[2] IN
    IF (top_fixed_area + bottom_fixed_area) % U16 > rows
    THEN <<rows, 0, 0>>
    ELSE <<top_fixed_area,
           (((rows - top_fixed_area) % U16) - bottom_fixed_area) % U16,
           bottom_fixed_area>>

\* ... and in a build with overflow checks the same arithmetic panics
ScrollPanics(m, top_fixed_area, bottom_fixed_area) ==
    LET rows == FRAMEBUFFER_SIZE(m)[2] IN
    \/ top_fixed_area + bottom_fixed_area > U16_MAX
    \/ /\ top_fixed_area + bottom_fixed_area <= rows
       /\ (rows < top_fixed_area \/ rows - top_fixed_area < bottom_fixed_area)

\* Display::set_vertical_scroll_region; `checks` is the build's overflow-checks flag
set_vertical_scroll_region(top_fixed_area, bottom_fixed_area, checks, f) ==
    /\ phase = "display"
    /\ call' = [op |-> "set_vertical_scroll_region",
                args |-> <<top_fixed_area, bottom_fixed_area>>]
    /\ IF checks /\ ScrollPanics(model, top_fixed_area, bottom_fixed_area)
       THEN /\ f = 0
            /\ events' = << >>
            /\ result' = "panic"
       ELSE LET a == ScrollArea(model, top_fixed_area, bottom_fixed_area)
                plan == By("Model::set_vertical_scroll_region",
                           << SetScrollArea(a[1], a[2], a[3]) >>)
            IN  /\ CanFail(plan, f)
                /\ events' = Exec(plan, f)
                /\ result' = DisplayResult(f)
    /\ UNCHANGED <<options, madctl, sleeping>>
    /\ DisplayKeeps

\* Display::set_vertical_scroll_offset
set_vertical_scroll_offset(offset, f) ==
    /\ phase = "display"
    /\ LET plan == By("Model::set_vertical_scroll_offset", << SetScrollStart(offset) >>) IN
       /\ CanFail(plan, f)
       /\ events' = Exec(plan, f)
    /\ result' = DisplayResult(f)
    /\ call' = [op |-> "set_vertical_scroll_offset", args |-> <<offset>>]
    /\ UNCHANGED <<options, madctl, sleeping>>
    /\ DisplayKeeps

\* Faulty variant: the reset pin kept back, None returned in its place
release_DropsPin ==
    /\ phase = "display"
    /\ phase' = "released"
    /\ rst' = FALSE
    /\ call' = [op |-> "release", args |-> << >>]
    /\ result' = "(di, model, None)"
    /\ events' = << >>
    /\ UNCHANGED <<model, kind, options, madctl, sleeping, built, framebuf>>

\* Display::release: consumes the Display and returns (di, model, rst); the
\* configuration, the cached address mode and the flag are dropped with it
release ==
    /\ phase = "display"
    /\ phase' = "released"
    /\ call' = [op |-> "release", args |-> << >>]
    /\ result' = IF rst THEN "(di, model, Some(rst))" ELSE "(di, model, None)"
    /\ events' = << >>
    /\ UNCHANGED <<model, kind, rst, options, madctl, sleeping, built, framebuf>>

\* Builder::new(model, di) on the parts release returned: the options are
\* full_size again and rst is None until reset_pin gives the pin back
Builder_new ==
    /\ phase = "released"
    /\ phase' = "builder"
    /\ rst' = FALSE
    /\ options' = full_size(model)
    /\ madctl' = SetAddressModeDefault
    /\ sleeping' = FALSE
    /\ call' = NoCall
    /\ result' = "-"
    /\ events' = << >>
    /\ UNCHANGED <<model, kind, built, framebuf>>

---------------------------------------------------------------------------
(* Inputs *)

\* no plan is longer than the reset through the pin followed by GC9107's init
MaxPlan == 4 + Len(GC9107_init(full_size([name |-> "GC9107", only |-> "-"])))

\* display_size arguments: around the framebuffer size, zero, and a width
\* that does not fit in 16 bits
SizeInputs(m) ==
    LET fb == FRAMEBUFFER_SIZE(m) IN
    {<<fb[1] - d, fb[2] - e>> : d, e \in {0, MaxInset}}
        \cup {<<0, fb[2]>>, <<fb[1], 0>>, <<fb[1] + 1, fb[2]>>, <<fb[1], fb[2] + 1>>,
              <<U16 + fb[1], fb[2]>>}

OffsetInputs ==
    {<<0, 0>>, <<MaxInset, 0>>, <<0, MaxInset>>, <<U16_MAX, U16_MAX>>}

\* the builder is given one orientation per rotation, mirrored or not
OrientationInputs ==
    {o \in Orientation : o.mirrored = (o.rotation \in {"Deg90", "Deg270"})}

\* and the default refresh order or the one flipped both ways
RefreshInputs ==
    {r \in RefreshOrder : (r.vertical = "TopToBottom") = (r.horizontal = "LeftToRight")}

Coords == {0, MaxCoord}

\* requested rectangles: small ones, and one at the top of the u16 range
RectInputs ==
    {<<x, y, x + MaxCoord, y + 2 * MaxCoord>> : x, y \in Coords}
        \cup {<<U16_MAX - MaxCoord, 0, U16_MAX, MaxCoord>>}

TearingEffect == {"Off", "Vertical", "HorizontalAndVertical"}

\* fixed areas for the scroll region: inside the panel, beyond its height,
\* and with a sum beyond 16 bits
ScrollInputs(m) ==
    {<<0, 0>>, <<MaxCoord, 2 * MaxCoord>>, <<FRAMEBUFFER_SIZE(m)[2], MaxCoord>>,
     <<U16_MAX, MaxCoord>>}

\* pixel slices: empty, and MaxPixels words
PixelInputs == {<< >>, [i \in 1..MaxPixels |-> i]}

---------------------------------------------------------------------------
(* Specifications *)

\* A builder fresh from Builder::new, for every panel on every interface
InitBuild == \E m \in Models, k \in InterfaceKind : BuilderNew(m, k)

Setters ==
    \/ \E v \in ColorInversion : invert_colors(v)
    \/ \E v \in ColorOrder : color_order(v)
    \/ \E v \in OrientationInputs : orientation(v)
    \/ \E v \in RefreshInputs : refresh_order(v)
    \/ \E s \in SizeInputs(model) : display_size(s[1], s[2])
    \/ \E s \in OffsetInputs : display_offset(s[1], s[2])
    \/ reset_pin

Build == \E f \in 0..MaxPlan : BuilderInit(f)

NextBuild == Setters \/ Build

SpecBuild == InitBuild /\ [][NextBuild]_vars


\* The operations of a Display
ShowRawData(rects) ==
    \E r \in rects, p \in PixelInputs, f \in 0..4 :
        show_raw_data(r[1], r[2], r[3], r[4], p, f)

DisplayOps(orientations, rects) ==
    \/ ShowRawData(rects)
    \/ \E v \in orientations, f \in 0..1 : set_orientation(v, f)
    \/ \E f \in 0..2 : sleep(f)
    \/ \E f \in 0..2 : wake(f)
    \/ \E te \in TearingEffect, f \in 0..1 : set_tearing_effect(te, f)
    \/ \E a \in ScrollInputs(model), checks \in BOOLEAN, f \in 0..1 :
            set_vertical_scroll_region(a[1], a[2], checks, f)
    \/ \E off \in {0, MaxCoord, U16_MAX}, f \in 0..1 : set_vertical_scroll_offset(off, f)

\* The life of a session: a builder configured for a panel on the serial
\* bus, then Builder::init, then the operations of the Display
SessionModels == {m \in Models : m.only \in {"-", "Serial4Line"}}
LifeModels == {m \in SessionModels : m.name \in {"ST7789", "OnlyOneKindModel"}}
LifeRects == {<<0, MaxCoord, MaxCoord, 2 * MaxCoord>>, <<U16_MAX - MaxCoord, 0, U16_MAX, MaxCoord>>}

Configured(m, k, hasRst, size, offset) ==
    /\ phase = "builder"
    /\ model = m
    /\ kind = k
    /\ rst = hasRst
    /\ options = [full_size(m) EXCEPT !.display_size = size, !.display_offset = offset]
    /\ madctl = SetAddressModeDefault
    /\ sleeping = FALSE
    /\ call = NoCall
    /\ result = "-"
    /\ events = << >>
    /\ built = NoDisplay
    /\ framebuf = NoFrameBuf

Init ==
    \E m \in LifeModels, hasRst \in BOOLEAN, d \in {0, MaxInset},
       offset \in {<<0, 0>>, <<MaxInset, 0>>} :
        Configured(m, "Serial4Line", hasRst,
                   <<FRAMEBUFFER_SIZE(m)[1] - d, FRAMEBUFFER_SIZE(m)[2] - d>>, offset)

Next == Build \/ DisplayOps(OrientationInputs, LifeRects)

Spec == Init /\ [][Next]_vars

\* The address window: a Display built from every valid configuration of the
\* input sets, in each of the eight orientations, and show_raw_data on it
Built(m, k, hasRst, o) ==
    /\ phase = "display"
    /\ model = m
    /\ kind = k
    /\ rst = hasRst
    /\ options = o
    /\ madctl = InitMadctl(m, o)
    /\ sleeping = FALSE
    /\ call = [op |-> "init", args |-> << >>]
    /\ result = "Ok"
    /\ events = BuildEvents(m, k, hasRst, o, 0)
    /\ built = DisplayOf(o, InitMadctl(m, o), hasRst, FALSE)
    /\ framebuf = NoFrameBuf

InitWindow ==
    \E m \in SessionModels : \E size \in SizeInputs(m), offset \in OffsetInputs, v \in Orientation :
        LET o == [full_size(m) EXCEPT !.display_size = <<as_u16(size[1]), as_u16(size[2])>>,
                                      !.display_offset = offset,
                                      !.orientation = v]
        IN  /\ BuildResult(m, "Serial4Line", FALSE, o, 0) = "Ok"
            /\ Built(m, "Serial4Line", FALSE, o)

NextWindow == ShowRawData(RectInputs)

SpecWindow == InitWindow /\ [][NextWindow]_vars

\* Rectangles inside the logical size of a Display: its corners and the whole
\* of it, the logical size being the display size with width and height
\* exchanged when the orientation swaps rows and columns
InsideRects(o) ==
    LET swapped == MemoryMappingFrom(o.orientation).swap_rows_and_columns
        w == IF swapped THEN o.display_size[2] ELSE o.display_size[1]
        h == IF swapped THEN o.display_size[1] ELSE o.display_size[2]
    IN  {<<0, 0, 0, 0>>, <<0, 0, w - 1, h - 1>>, <<w - 1, h - 1, w - 1, h - 1>>}

\* Every Display a valid configuration of the input sets gives, its
\* orientation set again and again, and show_raw_data inside its logical size
InitInside ==
    \E m \in LifeModels : \E size \in SizeInputs(m), offset \in OffsetInputs, v \in OrientationInputs :
        LET o == [full_size(m) EXCEPT !.display_size = <<as_u16(size[1]), as_u16(size[2])>>,
                                      !.display_offset = offset,
                                      !.orientation = v]
        IN  /\ BuildResult(m, "Serial4Line", FALSE, o, 0) = "Ok"
            /\ Built(m, "Serial4Line", FALSE, o)

NextInside ==
    \/ \E r \in InsideRects(options), f \in {0, 2, 4} :
          show_raw_data(r[1], r[2], r[3], r[4], << 1 >>, f)
    \/ \E v \in Orientation, f \in 0..1 : set_orientation(v, f)

SpecInside == InitInside /\ [][NextInside]_vars

\* The round trip: a configured builder, Builder::init, operations that change
\* the Display (set_orientation, sleep), Display::release, Builder::new on the
\* returned parts, the setters and Builder::init again
RoundTripSetters ==
    \/ \E v \in OrientationInputs : orientation(v)
    \/ \E s \in {<<0, 0>>, <<MaxInset, 0>>} : display_offset(s[1], s[2])
    \/ \E d \in {0, MaxInset} :
          display_size(FRAMEBUFFER_SIZE(model)[1] - d, FRAMEBUFFER_SIZE(model)[2] - d)
    \/ reset_pin

InitRoundTrip ==
    \E m \in LifeModels, hasRst \in BOOLEAN :
        Configured(m, "Serial4Line", hasRst,
                   <<FRAMEBUFFER_SIZE(m)[1] - MaxInset, FRAMEBUFFER_SIZE(m)[2] - MaxInset>>,
                   <<MaxInset, 0>>)

NextRoundTrip ==
    \/ Build
    \/ \E v \in OrientationInputs, f \in 0..1 : set_orientation(v, f)
    \/ \E f \in 0..2 : sleep(f)
    \/ release
    \/ Builder_new
    \/ RoundTripSetters

SpecRoundTrip == InitRoundTrip /\ [][NextRoundTrip]_vars

\* Displays that differ in the sleeping flag: one Display as built, and every
\* operation on it; sleep and wake give each state its twin
TwinOrientations == {[rotation |-> "Deg90", mirrored |-> TRUE]}
TwinRects == {<<0, MaxCoord, MaxCoord, 2 * MaxCoord>>}

InitTwins ==
    LET m == [name |-> "ST7789", only |-> "-"] IN
    Built(m, "Serial4Line", FALSE, full_size(m))

NextTwins == DisplayOps(TwinOrientations, TwinRects)

SpecTwins == InitTwins /\ [][NextTwins]_vars

\* The arithmetic of set_address_window as a function of its inputs: a Display
\* value with any size and offset (also ones Builder::init would reject), in
\* each of the eight orientations, and show_raw_data on it
ArithSizes(m) == {FRAMEBUFFER_SIZE(m), <<MaxInset, MaxInset>>, <<U16_MAX, U16_MAX>>}

InitArith ==
    \E m \in SessionModels : \E size \in ArithSizes(m), offset \in OffsetInputs, v \in Orientation :
        LET o == [full_size(m) EXCEPT !.display_size = size,
                                      !.display_offset = offset,
                                      !.orientation = v]
        IN  /\ phase = "display"
            /\ model = m
            /\ kind = "Serial4Line"
            /\ rst = FALSE
            /\ options = o
            /\ madctl = InitMadctl(m, o)
            /\ sleeping = FALSE
            /\ call = NoCall
            /\ result = "-"
            /\ events = << >>
            /\ built = NoDisplay
            /\ framebuf = NoFrameBuf

NextArith == ShowRawData(RectInputs)

SpecArith == InitArith /\ [][NextArith]_vars

---------------------------------------------------------------------------
(* interface/spi.rs, interface/parallel.rs: the two bus implementations.   *)
(* Here phase = "interface": an interface is held on its own, `kind` is its *)
(* KIND, `call`, `result` and `events` are the last send_command or         *)
(* send_data_slice and the pin and bus operations it performed.             *)

\* sequences given to the bus have at most MaxWords elements
MaxWords == 2

\* OutputPin::set_low / set_high on the command/data line
DcLow == [ev |-> "dc_low", op |-> 0, args |-> << >>, ok |-> TRUE, by |-> "-"]
DcHigh == [ev |-> "dc_high", op |-> 0, args |-> << >>, ok |-> TRUE, by |-> "-"]
\* SpiDevice::write(bytes)
SpiWrite(bytes) == [ev |-> "spi_write", op |-> 0, args |-> bytes, ok |-> TRUE, by |-> "-"]
\* OutputPin::set_low / set_high on the write strobe
WrLow == [ev |-> "wr_low", op |-> 0, args |-> << >>, ok |-> TRUE, by |-> "-"]
WrHigh == [ev |-> "wr_high", op |-> 0, args |-> << >>, ok |-> TRUE, by |-> "-"]
\* OutputBus::set_value(word)
SetValue(word) == [ev |-> "set_value", op |-> word, args |-> << >>, ok |-> TRUE, by |-> "-"]

\* BUS::Word::from(u8): u8 itself on the 8-bit bus, the zero-extended u16 on
\* the 16-bit bus; the number is the same
WordFrom(b) == b

\* map_err(SpiError::Dc / SpiError::Spi), map_err(ParallelError::Dc / Wr / Bus)
BusErrorOf(e) ==
    CASE e.ev \in {"dc_low", "dc_high"} -> "Err(Dc)"
      [] e.ev = "spi_write" -> "Err(Spi)"
      [] e.ev \in {"wr_low", "wr_high"} -> "Err(Wr)"
      [] e.ev = "set_value" -> "Err(Bus)"

\* Faulty variant: the args write skipped when there are no args
SpiSendCommandPlan_SkipEmpty(command, args) ==
    << DcLow, SpiWrite(<<command>>) >>
        \o (IF args = << >> THEN << >> ELSE << DcHigh, SpiWrite(args) >>)

\* SpiInterface::send_command, lines 46-49
SpiSendCommandPlan(command, args) ==
    << DcLow, SpiWrite(<<command>>), DcHigh, SpiWrite(args) >>

\* SpiInterface::send_data_slice, line 57
SpiSendDataPlan(data) == << SpiWrite(data) >>

\* Faulty variant: the value put on the bus after the strobe has risen
send_word_LatePulse(word) == By("send_word", << WrLow, WrHigh, SetValue(word) >>)

\* ParallelInterface::send_word, lines 51-53
send_word(word) == By("send_word", << WrLow, SetValue(word), WrHigh >>)

RECURSIVE SendWords(_)
\* `for &word in words { self.send_word(word).await?; }`
SendWords(words) ==
    IF words = << >> THEN << >>
    ELSE send_word(Head(words)) \o SendWords(Tail(words))

\* ParallelInterface::send_command, lines 69-76
ParallelSendCommandPlan(command, args) ==
    << DcLow >> \o send_word(WordFrom(command))
        \o (IF args # << >>
            THEN << DcHigh >> \o SendWords([i \in 1..Len(args) |-> WordFrom(args[i])])
            ELSE << >>)

\* ParallelInterface::send_data_slice, lines 86-88
ParallelSendDataPlan(data) == SendWords(data)

InterfaceKeeps == UNCHANGED <<phase, model, kind, rst, options, madctl, sleeping, built, framebuf>>

\* a call on the interface whose code is `plan`, step f of which fails
InterfaceCall(op, args, plan, f) ==
    /\ phase = "interface"
    /\ CanFail(plan, f)
    /\ events' = Exec(plan, f)
    /\ result' = IF f = 0 THEN "Ok" ELSE BusErrorOf(plan[f])
    /\ call' = [op |-> op, args |-> args]
    /\ InterfaceKeeps

SpiInterface_send_command(command, args, f) ==
    /\ kind = "Serial4Line"
    /\ InterfaceCall("send_command", <<command, args>>, SpiSendCommandPlan(command, args), f)

SpiInterface_send_data_slice(data, f) ==
    /\ kind = "Serial4Line"
    /\ InterfaceCall("send_data_slice", <<data>>, SpiSendDataPlan(data), f)

ParallelInterface_send_command(command, args, f) ==
    /\ kind \in {"Parallel8Bit", "Parallel16Bit"}
    /\ InterfaceCall("send_command", <<command, args>>, ParallelSendCommandPlan(command, args), f)

ParallelInterface_send_data_slice(data, f) ==
    /\ kind \in {"Parallel8Bit", "Parallel16Bit"}
    /\ InterfaceCall("send_data_slice", <<data>>, ParallelSendDataPlan(data), f)

\* opcodes and byte or word sequences given to the bus
CommandInputs == {0, 44, 255}
WordInputs == {[i \in 1..n |-> 16 * i + n] : n \in 0..MaxWords}

\* no plan of the bus is longer than a command with MaxWords arguments on the
\* parallel bus
MaxBusPlan == 2 + 3 * (1 + MaxWords)

\* SpiInterface::new(spi, dc) / ParallelInterface::new(bus, dc, wr)
InitBus ==
    /\ phase = "interface"
    /\ kind \in InterfaceKind
    /\ model = [name |-> "-", only |-> "-"]
    /\ rst = FALSE
    /\ options = << >>
    /\ madctl = SetAddressModeDefault
    /\ sleeping = FALSE
    /\ call = NoCall
    /\ result = "-"
    /\ events = << >>
    /\ built = NoDisplay
    /\ framebuf = NoFrameBuf

NextBus ==
    \/ \E c \in CommandInputs, a \in WordInputs, f \in 0..4 : SpiInterface_send_command(c, a, f)
    \/ \E d \in WordInputs, f \in 0..1 : SpiInterface_send_data_slice(d, f)
    \/ \E c \in CommandInputs, a \in WordInputs, f \in 0..MaxBusPlan :
            ParallelInterface_send_command(c, a, f)
    \/ \E d \in WordInputs, f \in 0..MaxBusPlan : ParallelInterface_send_data_slice(d, f)

SpecBus == InitBus /\ [][NextBus]_vars

---------------------------------------------------------------------------
(* The bring-up sequences on their own.  Here phase = "model": a panel and  *)
(* an interface are held and its init (for "ILI948x": init_common, which    *)
(* has no Model of its own in the source) has not run; afterwards phase is  *)
(* "initialised" or "failed", `madctl` is the value returned in Ok(..) and  *)
(* `call.args` holds the pixel format given to init_common.                 *)

BringUpModels == {[name |-> n, only |-> "-"] : n \in Chips \cup {"ILI948x"}}

\* PixelFormat::with_all of 16 and of 18 bits per pixel
PixelFormatInputs == {PixelFormatRgb565, 102}

\* the steps of the bring-up of panel m on an interface of kind k
BringUpPlan(m, k, o, pixel_format) ==
    IF m.name = "ILI948x" THEN ILI948x_init_common(o, pixel_format)
    ELSE IF Supported(m, k) THEN InitPlan(m, o)
    ELSE << >>

\* Model::init / init_common, step f of which fails
BringUp(pixel_format, f) ==
    /\ phase = "model"
    /\ LET plan == By("Model::init", BringUpPlan(model, kind, options, pixel_format))
           unsupported == model.name # "ILI948x" /\ ~Supported(model, kind)
       IN  /\ CanFail(plan, f)
           /\ model.name # "ILI948x" => pixel_format = PixelFormatRgb565
           /\ events' = Exec(plan, f)
           /\ result' = IF unsupported THEN "Err(InvalidConfiguration(UnsupportedInterface))"
                         ELSE IF f > 0 THEN "Err(Interface)"
                         ELSE "Ok"
    /\ call' = [op |-> "Model::init", args |-> <<pixel_format>>]
    /\ phase' = IF result' = "Ok" THEN "initialised" ELSE "failed"
    /\ madctl' = IF result' = "Ok" THEN InitMadctl(model, options) ELSE madctl
    /\ UNCHANGED <<model, kind, rst, options, sleeping, built, framebuf>>

InitBringUp ==
    /\ phase = "model"
    /\ model \in BringUpModels
    /\ kind \in InterfaceKind
    /\ rst = FALSE
    /\ options \in {[with_all(<<1, 1>>, <<0, 0>>) EXCEPT !.orientation = v,
                                                          !.invert_colors = i,
                                                          !.color_order = c] :
                        v \in OrientationInputs, i \in ColorInversion, c \in ColorOrder}
    /\ madctl = SetAddressModeDefault
    /\ sleeping = FALSE
    /\ call = NoCall
    /\ result = "-"
    /\ events = << >>
    /\ built = NoDisplay
    /\ framebuf = NoFrameBuf

NextBringUp == \E pf \in PixelFormatInputs, f \in 0..MaxPlan : BringUp(pf, f)

SpecBringUp == InitBringUp /\ [][NextBringUp]_vars

---------------------------------------------------------------------------
(* A Display on its interface, down to the pins: what the calls of a       *)
(* Display operation on Interface::send_command and send_data_slice do on   *)
(* the command/data line, the write strobe and the bus, and a call whose    *)
(* future is dropped at one of its `.await`s.                               *)

RECURSIVE OnBus(_, _)
\* the pin and bus operations of a plan on an interface of kind k: every
\* command goes through send_command and every pixel slice through
\* send_data_slice of that interface; delays and the reset pin are not its
\* business
OnBus(k, plan) ==
    IF plan = << >> THEN << >>
    ELSE LET e == Head(plan)
             spi == k = "Serial4Line"
             wire == CASE e.ev = "cmd" ->
                            IF spi THEN SpiSendCommandPlan(e.op, e.args)
                            ELSE ParallelSendCommandPlan(e.op, e.args)
                       [] e.ev = "data" ->
                            IF spi THEN SpiSendDataPlan(e.args)
                            ELSE ParallelSendDataPlan(e.args)
                       [] OTHER -> << e >>
         IN  wire \o OnBus(k, Tail(plan))

\* the `.await`s that can return Pending: SpiDevice::write and
\* DelayNs::delay_us.  The pins and OutputBus::set_value are synchronous, so
\* send_word never suspends.
IsSuspension(e) == e.ev \in {"spi_write", "delay"}

\* Faulty variant: the command/data line driven high when the future is dropped
Suspended_Compensated(wire, q) ==
    [i \in 1..q |-> IF i = q THEN [wire[i] EXCEPT !.by = "in flight"] ELSE wire[i]]
        \o << DcHigh >>

\* what a call has done when its future is dropped while operation q is
\* pending: the operations before q, and q itself, still in flight; no Drop
\* implementation adds anything
Suspended(wire, q) ==
    [i \in 1..q |-> IF i = q THEN [wire[i] EXCEPT !.by = "in flight"] ELSE wire[i]]

\* A Display operation whose future is dropped at its suspension point q.  o
\* is the configuration as the operation had left it by then; the statements
\* after the pending `.await` (the assignments to madctl and sleeping) are
\* never run.  `events` holds the pin and bus operations of the call.
Abandoned(op, args, plan, o, q) ==
    /\ phase = "display"
    /\ LET wire == OnBus(kind, plan) IN
       /\ q \in 1..Len(wire)
       /\ IsSuspension(wire[q])
       /\ events' = Suspended(wire, q)
    /\ call' = [op |-> op, args |-> args]
    /\ result' = "abandoned"
    /\ options' = o
    /\ UNCHANGED <<madctl, sleeping>>
    /\ DisplayKeeps

\* no Display operation has more pin and bus operations than show_raw_data on
\* the serial bus
MaxWire == 3 * Len(SpiSendCommandPlan(0, << >>)) + Len(SpiSendDataPlan(<< >>))

AbandonedOps(orientations, rects) ==
    \/ \E r \in rects, p \in PixelInputs, q \in 1..MaxWire :
          Abandoned("show_raw_data", <<r[1], r[2], r[3], r[4], p>>,
                    ShowRawDataPlan(model, options, r[1], r[2], r[3], r[4], p), options, q)
    \/ \E v \in orientations, q \in 1..MaxWire :
          LET o == [options EXCEPT !.orientation = v] IN
          Abandoned("set_orientation", <<v>>, By("Model::update_options", update_options(o)), o, q)
    \/ \E q \in 1..MaxWire :
          Abandoned("sleep", << >>, By("Model::sleep", Model_sleep), options, q)
    \/ \E q \in 1..MaxWire :
          Abandoned("wake", << >>, By("Model::wake", Model_wake), options, q)
    \/ \E te \in TearingEffect, q \in 1..MaxWire :
          Abandoned("set_tearing_effect", <<te>>,
                    By("Model::set_tearing_effect", << SetTearingEffect(te) >>), options, q)
    \/ \E a \in ScrollInputs(model), q \in 1..MaxWire :
          LET area == ScrollArea(model, a[1], a[2]) IN
          /\ ~ScrollPanics(model, a[1], a[2])
          /\ Abandoned("set_vertical_scroll_region", <<a[1], a[2]>>,
                       By("Model::set_vertical_scroll_region",
                          << SetScrollArea(area[1], area[2], area[3]) >>), options, q)
    \/ \E off \in {0, MaxCoord, U16_MAX}, q \in 1..MaxWire :
          Abandoned("set_vertical_scroll_offset", <<off>>,
                    By("Model::set_vertical_scroll_offset", << SetScrollStart(off) >>), options, q)

\* One Display as built, on each kind of interface, its operations, and its
\* operations abandoned
InitWire ==
    \E k \in InterfaceKind :
        LET m == [name |-> "ST7789", only |-> "-"] IN
        Built(m, k, FALSE, full_size(m))

NextWire ==
    \/ DisplayOps(TwinOrientations, TwinRects)
    \/ AbandonedOps(TwinOrientations, TwinRects)

SpecWire == InitWire /\ [][NextWire]_vars

---------------------------------------------------------------------------
(* raw_framebuf.rs: RawFrameBuf over a caller's byte buffer *)

\* usize is as wide as the target's addresses.  The model takes the 16 bits of
\* the narrowest targets; on wider ones the same products wrap at 2^32 or
\* 2^64.  Without overflow checks usize arithmetic wraps.
USIZE == U16
usize_mul(a, b) == (a * b) % USIZE
usize_add(a, b) == (a + b) % USIZE

\* the widest side a frame buffer is given (its other side is short)
MaxSide == 2

\* the color types with an IntoRawBytes implementation, and N of each
ColorTypes == {"Rgb565", "Rgb888"}
BYTES_PER_PIXEL(C) == IF C = "Rgb565" THEN 2 ELSE 3

\* IntoRawBytes::into_raw_bytes: RawU16::from(color).to_be_bytes() for Rgb565
\* (5 bits of red, 6 of green, 5 of blue), [r, g, b] for Rgb888
into_raw_bytes(C, color) ==
    IF C = "Rgb565"
    THEN be_bytes(color.r * 2048 + color.g * 32 + color.b)
    ELSE <<color.r, color.g, color.b>>

Pixel(x, y, color) == [x |-> x, y |-> y, color |-> color]
Rectangle(x, y, width, height) == [x |-> x, y |-> y, width |-> width, height |-> height]

\* the RawFrameBuf that new returns
FrameBufOf(C, buffer, width, height) ==
    [some |-> TRUE, color |-> C, buffer |-> buffer, width |-> width, height |-> height]

\* width * height * N, as new, draw_iter, clear and fill_solid compute it
active_buffer_len(fb) ==
    usize_mul(usize_mul(fb.width, fb.height), BYTES_PER_PIXEL(fb.color))

\* the product of new (line 87) exceeds usize: a panic with overflow checks,
\* a wrapped value without
NewOverflows(C, width, height) ==
    width * height * BYTES_PER_PIXEL(C) >= USIZE

\* buffer_slice[byte_index..byte_index + N].copy_from_slice(&color_bytes),
\* on a buffer whose first byte is buffer[1]
copy_from_slice(buffer, byte_index, color_bytes) ==
    [i \in 1..Len(buffer) |->
        IF i - 1 >= byte_index /\ i - 1 < byte_index + Len(color_bytes)
        THEN color_bytes[i - byte_index]
        ELSE buffer[i]]

\* draw_iter lines 159-164, fill_solid lines 207-210: the byte index of the
\* pixel, and the write if the pixel's bytes end inside the active length
PutPixel(fb, x, y, color) ==
    LET n == BYTES_PER_PIXEL(fb.color)
        byte_index == usize_mul(usize_add(usize_mul(y % USIZE, fb.width), x % USIZE), n)
    IN  IF usize_add(byte_index, n) <= active_buffer_len(fb)
        THEN copy_from_slice(fb.buffer, byte_index, into_raw_bytes(fb.color, color))
        ELSE fb.buffer

\* draw_iter lines 154-157
InBounds(fb, x, y) == x >= 0 /\ x < fb.width /\ y >= 0 /\ y < fb.height

\* draw_iter lines 153-166: the loop over the pixels
RECURSIVE DrawPixels(_, _)
DrawPixels(fb, pixels) ==
    IF pixels = << >> THEN fb.buffer
    ELSE LET p == Head(pixels)
             drawn == IF InBounds(fb, p.x, p.y) THEN PutPixel(fb, p.x, p.y, p.color)
                      ELSE fb.buffer
         IN  DrawPixels([fb EXCEPT !.buffer = drawn], Tail(pixels))

\* clear lines 177-184: every whole chunk of N bytes below the active length
ClearBytes(fb, color) ==
    LET n == BYTES_PER_PIXEL(fb.color)
        color_bytes == into_raw_bytes(fb.color, color)
        whole == (active_buffer_len(fb) \div n) * n
    IN  [i \in 1..Len(fb.buffer) |->
            IF i - 1 < whole THEN color_bytes[((i - 1) % n) + 1] ELSE fb.buffer[i]]

\* self.bounding_box(): the rectangle from the origin with the buffer's size
bounding_box(fb) == Rectangle(0, 0, fb.width, fb.height)

is_zero_sized(r) == r.width = 0 \/ r.height = 0

\* Rectangle::intersection of embedded-graphics: the overlap of the two
\* rectangles, zero-sized when they do not overlap or one of them is empty
intersection(a, b) ==
    LET left == Max(a.x, b.x)
        top == Max(a.y, b.y)
        right == Min(a.x + a.width, b.x + b.width)
        bottom == Min(a.y + a.height, b.y + b.height)
    IN  IF is_zero_sized(a) \/ is_zero_sized(b) \/ right <= left \/ bottom <= top
        THEN Rectangle(a.x, a.y, 0, 0)
        ELSE Rectangle(left, top, right - left, bottom - top)

\* fill_solid lines 199-212: the rows of the drawable area from the top, each
\* from the left
RECURSIVE FillFrom(_, _, _, _, _)
FillFrom(fb, area, x, y, color) ==
    IF y >= area.y + area.height THEN fb.buffer
    ELSE IF x >= area.x + area.width THEN FillFrom(fb, area, area.x, y + 1, color)
    ELSE FillFrom([fb EXCEPT !.buffer = PutPixel(fb, x, y, color)], area, x + 1, y, color)

FillBytes(fb, area, color) ==
    LET drawable_area == intersection(area, bounding_box(fb)) IN
    IF is_zero_sized(drawable_area) THEN fb.buffer
    ELSE FillFrom(fb, drawable_area, drawable_area.x, drawable_area.y, color)

FrameKeeps == UNCHANGED <<model, kind, rst, options, madctl, sleeping, events, built>>

\* RawFrameBuf::new(buffer, width, height): the assertion on the buffer's
\* length.  checks: the build has overflow checks (a debug build)
RawFrameBuf_new(C, buffer, width, height, checks) ==
    /\ phase = "buffer"
    /\ call' = [op |-> "new", args |-> <<C, buffer, width, height, checks>>]
    /\ LET expected_len == usize_mul(usize_mul(width, height), BYTES_PER_PIXEL(C)) IN
       IF (checks /\ NewOverflows(C, width, height)) \/ Len(buffer) < expected_len
       THEN /\ phase' = "panicked"
            /\ result' = "panic"
            /\ UNCHANGED framebuf
       ELSE /\ phase' = "framebuf"
            /\ result' = "Ok"
            /\ framebuf' = FrameBufOf(C, buffer, width, height)
    /\ FrameKeeps

\* what a DrawTarget operation does to the RawFrameBuf: only the bytes change
FrameCall(op, args, bytes) ==
    /\ phase = "framebuf"
    /\ call' = [op |-> op, args |-> args]
    /\ result' = "Ok"
    /\ framebuf' = [framebuf EXCEPT !.buffer = bytes]
    /\ UNCHANGED phase
    /\ FrameKeeps

draw_iter(pixels) == FrameCall("draw_iter", pixels, DrawPixels(framebuf, pixels))

clear(color) == FrameCall("clear", <<color>>, ClearBytes(framebuf, color))

fill_solid(area, color) == FrameCall("fill_solid", <<area, color>>, FillBytes(framebuf, area, color))

(* Inputs of the frame buffer *)

\* two colors whose bytes differ from each other and from the zero bytes the
\* buffers start with
Colors == {[r |-> 1, g |-> 2, b |-> 3], [r |-> 31, g |-> 63, b |-> 31]}
FirstColor == [r |-> 1, g |-> 2, b |-> 3]

\* sizes: a small buffer, empty ones, and three rows so wide that the pixel
\* count is one more than twice the range of usize
FrameSizes ==
    {<<MaxSide, 2>>, <<0, MaxSide>>, <<MaxSide, 0>>, <<(2 * USIZE + 1) \div 3, 3>>}

\* buffers: zero bytes, of the length required or one byte more
FrameBuffers(C, size) ==
    LET expected_len == usize_mul(usize_mul(size[1], size[2]), BYTES_PER_PIXEL(C))
    IN  {[i \in 1..n |-> 0] : n \in expected_len..(expected_len + 1)}

\* coordinates around the edges of the buffer
EdgeCoords(side) == {-1, 0, side - 1, side}

PixelsAt(fb, colors) ==
    {Pixel(x, y, c) : x \in EdgeCoords(fb.width), y \in EdgeCoords(fb.height), c \in colors}

\* pixel sequences: none, one pixel, and a pixel of the first color followed
\* by one of the other color, at the same place or in the first row
DrawInputs(fb) ==
    {<< >>}
        \cup {<<p>> : p \in PixelsAt(fb, Colors)}
        \cup {s \in PixelsAt(fb, {FirstColor}) \X PixelsAt(fb, Colors \ {FirstColor}) :
                    s[2].y = 0 \/ (s[2].x = s[1].x /\ s[2].y = s[1].y)}

\* areas: from around the top left corner or from the last column or row, of
\* sizes up to beyond the buffer
AreaInputs(fb) ==
    {Rectangle(x, y, w, h) : x \in {-1, 0, fb.width - 1}, y \in {-1, 0, fb.height - 1},
                             w \in {0, 1, MaxSide + 1}, h \in {0, 1, 3}}

InitFrame ==
    /\ phase = "buffer"
    /\ model = [name |-> "ST7789", only |-> "-"]
    /\ kind = "Serial4Line"
    /\ rst = FALSE
    /\ options = full_size(model)
    /\ madctl = SetAddressModeDefault
    /\ sleeping = FALSE
    /\ call = NoCall
    /\ result = "-"
    /\ events = << >>
    /\ built = NoDisplay
    /\ framebuf = NoFrameBuf

\* a frame is drawn on the buffer as new took it or as clear left it
FrameStart == phase = "framebuf" /\ call.op \in {"new", "clear"}

NextFrame ==
    \/ \E C \in ColorTypes, size \in FrameSizes, checks \in BOOLEAN :
         \E buffer \in FrameBuffers(C, size) :
            RawFrameBuf_new(C, buffer, size[1], size[2], checks)
    \/ FrameStart /\ \E pixels \in DrawInputs(framebuf) : draw_iter(pixels)
    \/ \E color \in Colors : clear(color)
    \/ FrameStart /\ \E area \in AreaInputs(framebuf), color \in Colors :
            fill_solid(area, color)

SpecFrame == InitFrame /\ [][NextFrame]_vars

---------------------------------------------------------------------------
(* Properties *)

\* the 16-bit value in bytes i, i+1 of a command's arguments
U16At(args, i) == args[i] * 256 + args[i + 1]

IsCmd(e, op) == e.ev = "cmd" /\ e.op = op

InvalidDisplaySize == "Err(InvalidConfiguration(InvalidDisplaySize))"
InvalidDisplayOffset == "Err(InvalidConfiguration(InvalidDisplayOffset))"
UnsupportedInterface == "Err(InvalidConfiguration(UnsupportedInterface))"

\* C1: a successful show_raw_data performs exactly column address (0x2A), page
\* address (0x2B), memory write start (0x2C, no arguments) and the pixel slice,
\* in this order; no operation sends a pixel slice unless the step just before
\* it was a successful memory write start; a failed step is the last step.
C1_ShowRawDataOrder ==
    /\ (call.op = "show_raw_data" /\ result = "Ok") =>
          /\ Len(events) = 4
          /\ \A i \in 1..4 : events[i].ok
          /\ IsCmd(events[1], 42)
          /\ IsCmd(events[2], 43)
          /\ IsCmd(events[3], 44) /\ events[3].args = << >>
          /\ events[4].ev = "data" /\ events[4].args = call.args[5]
    /\ phase = "display" =>
          \A i \in 1..Len(events) :
              /\ events[i].ev = "data" =>
                    i > 1 /\ IsCmd(events[i - 1], 44) /\ events[i - 1].ok
              /\ ~events[i].ok => i = Len(events)

C1_Witness ==
    /\ call.op = "show_raw_data" /\ result = "Ok"
    /\ Len(call.args[5]) > 0
    /\ events[4].ev = "data"

\* The offset the claim C2 gives for the mapping flags of the orientation
C2_Offset ==
    LET mapping == MemoryMappingFrom(options.orientation)
        fb == FRAMEBUFFER_SIZE(model)
        rx == IF mapping.reverse_columns
              THEN fb[1] - (options.display_size[1] + options.display_offset[1])
              ELSE options.display_offset[1]
        ry == IF mapping.reverse_rows
              THEN fb[2] - (options.display_size[2] + options.display_offset[2])
              ELSE options.display_offset[2]
    IN  IF mapping.swap_rows_and_columns THEN <<ry, rx>> ELSE <<rx, ry>>

\* the window show_raw_data put on the bus agrees with `expected`, as far as
\* its two commands were attempted
C2_Sent(expected) ==
    /\ Len(events) >= 1
    /\ IsCmd(events[1], 42)
    /\ <<U16At(events[1].args, 1), U16At(events[1].args, 3)>> = <<expected[1], expected[3]>>
    /\ Len(events) >= 2 =>
          /\ IsCmd(events[2], 43)
          /\ <<U16At(events[2].args, 1), U16At(events[2].args, 3)>> = <<expected[2], expected[4]>>

\* C2 as stated: the window sent is (sx+ox, ex+ox), (sy+oy, ey+oy) for every
\* validated configuration, orientation and requested rectangle.
C2_AsStated ==
    call.op = "show_raw_data" =>
        LET a == call.args
            off == C2_Offset
        IN  C2_Sent(<<a[1] + off[1], a[2] + off[2], a[3] + off[1], a[4] + off[2]>>)

\* C2, amended: the window sent is (sx+ox, ex+ox), (sy+oy, ey+oy) with each sum
\* clamped to 65535, where (ox, oy) reverses the offset on the physical axes
\* first and swaps afterwards.
C2_AddressWindow ==
    call.op = "show_raw_data" =>
        LET a == call.args
            off == C2_Offset
        IN  C2_Sent(<<Min(U16_MAX, a[1] + off[1]), Min(U16_MAX, a[2] + off[2]),
                      Min(U16_MAX, a[3] + off[1]), Min(U16_MAX, a[4] + off[2])>>)

\* a window sent for a panel mounted rotated and mirrored (all three flags
\* set), with an inset display whose two offsets differ
C2_Witness ==
    /\ call.op = "show_raw_data" /\ result = "Ok"
    /\ LET mapping == MemoryMappingFrom(options.orientation) IN
          mapping.reverse_columns /\ mapping.reverse_rows /\ mapping.swap_rows_and_columns
    /\ C2_Offset[1] # C2_Offset[2]
    /\ options.display_offset[1] # options.display_offset[2]
    /\ U16At(events[1].args, 1) = call.args[1] + C2_Offset[1]

\* C3: Builder::init returns InvalidDisplaySize exactly when w = 0, h = 0,
\* w > FRAMEBUFFER_SIZE.w or h > FRAMEBUFFER_SIZE.h, whatever the offset is.
C3_InvalidDisplaySize ==
    call.op = "init" =>
        (result = InvalidDisplaySize
            <=> \/ options.display_size[1] = 0
                \/ options.display_size[2] = 0
                \/ options.display_size[1] > FRAMEBUFFER_SIZE(model)[1]
                \/ options.display_size[2] > FRAMEBUFFER_SIZE(model)[2])

\* a configuration that violates both checks, reported as InvalidDisplaySize
C3_Witness ==
    /\ call.op = "init" /\ result = InvalidDisplaySize
    /\ options.display_size[1] = 0
    /\ options.display_size[2] + options.display_offset[2] > FRAMEBUFFER_SIZE(model)[2]

C4_SizeValid ==
    /\ 0 < options.display_size[1] /\ options.display_size[1] <= FRAMEBUFFER_SIZE(model)[1]
    /\ 0 < options.display_size[2] /\ options.display_size[2] <= FRAMEBUFFER_SIZE(model)[2]

\* C4: with a valid size, Builder::init returns InvalidDisplayOffset exactly
\* when w + offset.x > FRAMEBUFFER_SIZE.w or h + offset.y > FRAMEBUFFER_SIZE.h,
\* the sums being the exact integer sums (also above 65535); w + offset.x =
\* FRAMEBUFFER_SIZE.w and h + offset.y = FRAMEBUFFER_SIZE.h is accepted.
C4_InvalidDisplayOffset ==
    (call.op = "init" /\ C4_SizeValid) =>
        (result = InvalidDisplayOffset
            <=> \/ options.display_size[1] + options.display_offset[1] > FRAMEBUFFER_SIZE(model)[1]
                \/ options.display_size[2] + options.display_offset[2] > FRAMEBUFFER_SIZE(model)[2])

\* a sum above 65535 is rejected
C4_Witness ==
    /\ call.op = "init" /\ C4_SizeValid
    /\ options.display_size[1] + options.display_offset[1] > U16_MAX
    /\ result = InvalidDisplayOffset

\* the events of Builder::init performed by the reset / by Model::init
C5_IsReset(i) == events[i].by = "reset"
C5_IsInit(i) == events[i].by = "Model::init"
C5_Reset == SelectSeq(events, LAMBDA e : e.by = "reset")

\* C5: once validation has passed, Builder::init resets before Model::init
\* runs.  With a reset pin: pin low, delay RESET_DURATION us, pin high, delay
\* 10000 us, and no SoftReset; without: one SoftReset (0x01, no arguments) and
\* no pin operation.  Every event of Model::init comes after every reset event,
\* and Model::init starts only after a complete reset.
C5_ResetBeforeInit ==
    (call.op = "init" /\ result \notin {InvalidDisplaySize, InvalidDisplayOffset}) =>
        LET n == Len(C5_Reset)
            pinned == << <<"rst_low", 0>>, <<"delay", RESET_DURATION(model)>>,
                         <<"rst_high", 0>>, <<"delay", 10000>> >>
            soft == << <<"cmd", 1>> >>
            want == IF rst THEN pinned ELSE soft
            done == n = Len(want) /\ events[n].ok
        IN  /\ n >= 1 /\ n <= Len(want)
            /\ \A i \in 1..n : C5_IsReset(i) /\ <<events[i].ev, events[i].op>> = want[i]
                                /\ events[i].args = << >>
            /\ \A i \in (n + 1)..Len(events) : C5_IsInit(i)
            /\ rst => \A i \in 1..Len(events) : ~IsCmd(events[i], 1)
            /\ ~rst => \A i \in 1..Len(events) : events[i].ev \notin {"rst_low", "rst_high"}
            /\ (Len(events) > n \/ result \in {"Ok", UnsupportedInterface}) => done
            /\ ~done => (~events[n].ok /\ result = (IF rst THEN "Err(ResetPin)" ELSE "Err(Interface)"))

\* a panel brought up after a reset through the pin
C5_Witness ==
    /\ call.op = "init" /\ result = "Ok" /\ rst
    /\ Len(events) > 4
    /\ C5_IsReset(4) /\ C5_IsInit(5)

C6_InitErrors ==
    {InvalidDisplaySize, InvalidDisplayOffset, UnsupportedInterface,
     "Err(ResetPin)", "Err(Interface)"}

\* the address-mode value the panel's init wrote, which is the value it returns
\* (OnlyOneKindModel writes nothing and returns the default value)
C6_Returned(v) ==
    IF model.name = "OnlyOneKindModel"
    THEN v = SetAddressModeDefault
    ELSE \E i \in 1..Len(events) :
            C5_IsInit(i) /\ IsCmd(events[i], 54) /\ events[i].args = <<v>>

C6_Session ==
    /\ (phase = "display" /\ call.op = "init") =>
          /\ result = "Ok"
          /\ C4_SizeValid
          /\ options.display_size[1] + options.display_offset[1] <= FRAMEBUFFER_SIZE(model)[1]
          /\ options.display_size[2] + options.display_offset[2] <= FRAMEBUFFER_SIZE(model)[2]
          /\ \A i \in 1..Len(events) : events[i].ok
          /\ Len(C5_Reset) = (IF rst THEN 4 ELSE 1)
          /\ \A i \in 1..Len(events) : C5_IsReset(i) <=> i <= Len(C5_Reset)
          /\ model.name # "OnlyOneKindModel" => IsCmd(events[Len(events) - 1], 41)
                                                  \/ IsCmd(events[Len(events)], 41)
          /\ sleeping = FALSE
          /\ C6_Returned(madctl)
    /\ call.op = "init" =>
          /\ result = "Ok" <=> phase = "display"
          /\ result # "Ok" <=> (phase = "failed" /\ result \in C6_InitErrors)
    /\ phase = "builder" => call.op # "init"

C6_Step ==
    /\ phase # "failed"
    /\ (phase = "builder" /\ phase' # "builder") =>
          /\ call'.op = "init"
          /\ <<model', kind', rst', options'>> = <<model, kind, rst, options>>

\* C6: a Display exists only after validation, reset and Model::init succeeded,
\* in this order; it has sleeping = false, the address-mode value Model::init
\* returned and the builder's configuration; a failed init gives an InitError
\* and no Display, and nothing more can be done with the consumed builder.
C6_SessionOnlyAfterInit == []C6_Session /\ [][C6_Step]_vars

\* a Display for a chip, built with a configuration whose address mode is not
\* the default one
C6_Witness ==
    /\ phase = "display" /\ call.op = "init"
    /\ model.name = "GC9107"
    /\ madctl # SetAddressModeDefault

\* the interface kinds the claim C7 lists as rejected
C7_Rejected ==
    \/ model.name \in {"GC9107", "RM67162"} /\ kind = "Parallel16Bit"
    \/ model.name = "OnlyOneKindModel" /\ kind # model.only

\* C7: on an interface kind outside the panel's supported set (Parallel16Bit
\* for GC9107 and RM67162, none for ST7789, every kind but its own for
\* OnlyOneKindModel), init fails with UnsupportedInterface once validation and
\* reset have passed, no Display is built, and Model::init has performed no
\* command and no delay; on a supported kind init never fails this way.
C7_UnsupportedInterface ==
    /\ C7_Rejected => phase # "display"
    /\ call.op = "init" =>
          /\ result = UnsupportedInterface
                <=> /\ C7_Rejected
                    /\ result \notin {InvalidDisplaySize, InvalidDisplayOffset}
                    /\ \A i \in 1..Len(events) : events[i].ok
          /\ C7_Rejected => \A i \in 1..Len(events) : ~C5_IsInit(i)

C7_Witness ==
    /\ call.op = "init" /\ result = UnsupportedInterface
    /\ model.name = "GC9107" /\ kind = "Parallel16Bit"
    /\ rst /\ Len(events) = 4

\* every operation of the Display can be called
C8_Available ==
    /\ ENABLED show_raw_data(0, 0, 0, 0, << >>, 0)
    /\ ENABLED set_orientation(DefaultOrientation, 0)
    /\ ENABLED set_vertical_scroll_region(0, 0, FALSE, 0)
    /\ ENABLED set_vertical_scroll_offset(0, 0)
    /\ ENABLED set_tearing_effect("Off", 0)
    /\ ENABLED sleep(0)
    /\ ENABLED wake(0)

C8_Settled(op) ==
    /\ Len(events) = 2
    /\ IsCmd(events[1], op) /\ events[1].args = << >> /\ events[1].ok
    /\ events[2].ev = "delay" /\ events[2].op = 120000

\* C8: a successful sleep writes one EnterSleepMode (0x10), waits 120000 us and
\* leaves the flag true; a successful wake writes one ExitSleepMode (0x11),
\* waits 120000 us and leaves the flag false, with every operation available.
C8_SleepWake ==
    /\ (call.op = "sleep" /\ result = "Ok") => (C8_Settled(16) /\ sleeping)
    /\ (call.op = "wake" /\ result = "Ok") => (C8_Settled(17) /\ ~sleeping /\ C8_Available)

C8_Witness ==
    /\ call.op = "wake" /\ result = "Ok"
    /\ ~sleeping
    /\ C8_Settled(17)

C9_Op == IF call.op = "sleep" THEN 16 ELSE 17

\* C9 as stated: every call to sleep or wake waits 120 ms after writing the
\* command, whatever the outcome of the write.
C9_AsStated ==
    call.op \in {"sleep", "wake"} =>
        /\ Len(events) = 2
        /\ IsCmd(events[1], C9_Op)
        /\ events[2].ev = "delay" /\ events[2].op = 120000

\* C9, amended: a call to sleep or wake whose command write succeeds waits
\* 120 ms after it and returns Ok; one whose command write fails returns the
\* error at once, without waiting.
C9_SettleDelay ==
    call.op \in {"sleep", "wake"} =>
        /\ Len(events) >= 1
        /\ IsCmd(events[1], C9_Op)
        /\ events[1].ok =>
              /\ Len(events) = 2
              /\ events[2].ev = "delay" /\ events[2].op = 120000
              /\ result = "Ok"
        /\ ~events[1].ok => (Len(events) = 1 /\ result = "Err(Interface)")

C9_Witness ==
    /\ call.op = "sleep" /\ result = "Err(Interface)"
    /\ Len(events) = 1 /\ IsCmd(events[1], 16) /\ ~events[1].ok

\* C10: the sleeping flag changes only in a sleep or wake that returns Ok; a
\* sleep or wake whose command write fails returns the error and leaves the
\* flag as it was.
C10_FlagOnlyOnSuccess ==
    [][ /\ sleeping' # sleeping => (call'.op \in {"sleep", "wake"} /\ result' = "Ok")
        /\ (call'.op \in {"sleep", "wake"} /\ ~events'[1].ok) =>
              (result' = "Err(Interface)" /\ sleeping' = sleeping) ]_vars

\* a failed wake on a sleeping display
C10_Witness ==
    /\ call.op = "wake" /\ result = "Err(Interface)"
    /\ ~events[1].ok
    /\ sleeping

\* C11 as stated: a successful set_orientation(o) stores o, writes exactly one
\* address-mode command (0x36) with the value derived from the updated
\* configuration, and leaves the cached address-mode value equal to the value
\* derived from the current configuration.
C11_AsStated ==
    (call.op = "set_orientation" /\ result = "Ok") =>
        /\ options.orientation = call.args[1]
        /\ Len(events) = 1
        /\ IsCmd(events[1], 54) /\ events[1].ok
        /\ events[1].args = <<SetAddressModeFrom(options)>>
        /\ madctl = SetAddressModeFrom(options)

\* C12 as stated: for every 16-bit top and bottom fixed area, with rows =
\* FRAMEBUFFER_SIZE.h, set_vertical_scroll_region writes the scroll area
\* (rows, 0, 0) when top + bottom > rows and (top, rows - top - bottom, bottom)
\* otherwise, whose values sum to rows; no input overflows or underflows.
C12_AsStated ==
    call.op = "set_vertical_scroll_region" =>
        LET top == call.args[1]
            bottom == call.args[2]
            rows == FRAMEBUFFER_SIZE(model)[2]
            want == IF top + bottom > rows THEN <<rows, 0, 0>>
                    ELSE <<top, rows - top - bottom, bottom>>
        IN  /\ result # "panic"
            /\ Len(events) = 1
            /\ IsCmd(events[1], 51)
            /\ <<U16At(events[1].args, 1), U16At(events[1].args, 3), U16At(events[1].args, 5)>> = want
            /\ top + bottom <= rows => want[1] + want[2] + want[3] = rows

\* The offset the claim C13 gives: a reversed offset is
\* max(0, FRAMEBUFFER_SIZE - min(65535, size + offset))
C13_Offset ==
    LET mapping == MemoryMappingFrom(options.orientation)
        fb == FRAMEBUFFER_SIZE(model)
        rx == IF mapping.reverse_columns
              THEN Max(0, fb[1] - Min(U16_MAX, options.display_size[1] + options.display_offset[1]))
              ELSE options.display_offset[1]
        ry == IF mapping.reverse_rows
              THEN Max(0, fb[2] - Min(U16_MAX, options.display_size[2] + options.display_offset[2]))
              ELSE options.display_offset[2]
    IN  IF mapping.swap_rows_and_columns THEN <<ry, rx>> ELSE <<rx, ry>>

\* the four coordinates of the two address commands, as sent
C13_SentWindow ==
    <<U16At(events[1].args, 1), U16At(events[2].args, 1),
      U16At(events[1].args, 3), U16At(events[2].args, 3)>>

\* C13: for every 16-bit rectangle and every size and offset, each coordinate
\* sent is min(65535, coordinate + offset component), with a reversed offset
\* of max(0, FRAMEBUFFER_SIZE - min(65535, size + offset)); every value is in
\* 0..65535 and each coordinate sent is at least the requested one.
C13_Saturates ==
    (call.op = "show_raw_data" /\ Len(events) >= 2) =>
        LET a == call.args
            off == C13_Offset
            sent == C13_SentWindow
        IN  /\ IsCmd(events[1], 42) /\ IsCmd(events[2], 43)
            /\ sent = <<Min(U16_MAX, a[1] + off[1]), Min(U16_MAX, a[2] + off[2]),
                        Min(U16_MAX, a[3] + off[1]), Min(U16_MAX, a[4] + off[2])>>
            /\ \A i \in 1..4 : sent[i] \in 0..U16_MAX /\ sent[i] >= a[i]
            /\ \A i \in 1..2 : \A j \in 1..4 : events[i].args[j] \in 0..255

\* a reversal that clamps at 0 and a sum that clamps at 65535
C13_Witness ==
    /\ call.op = "show_raw_data" /\ Len(events) >= 2
    /\ MemoryMappingFrom(options.orientation).reverse_columns
    /\ options.display_size[1] + options.display_offset[1] > FRAMEBUFFER_SIZE(model)[1]
    /\ \E i \in 1..4 : /\ C13_SentWindow[i] = U16_MAX
                        /\ call.args[i] + C13_Offset[IF i \in {1, 3} THEN 1 ELSE 2] > U16_MAX

\* what an operation of the bus did, without its outcome
C14_Did(e) == <<e.ev, e.op, e.args>>
C14_OnSpi == phase = "interface" /\ kind = "Serial4Line"

\* C14: a successful SpiInterface::send_command(opcode, args) performs exactly:
\* command/data line low, one SPI write of the opcode byte, command/data line
\* high, one SPI write of args (also when args is empty); send_data_slice
\* performs exactly one SPI write of the given bytes and never drives the
\* command/data line.
C14_SpiOrder ==
    /\ (C14_OnSpi /\ call.op = "send_command" /\ result = "Ok") =>
          /\ Len(events) = 4
          /\ \A i \in 1..4 : events[i].ok
          /\ C14_Did(events[1]) = <<"dc_low", 0, << >> >>
          /\ C14_Did(events[2]) = <<"spi_write", 0, <<call.args[1]>> >>
          /\ C14_Did(events[3]) = <<"dc_high", 0, << >> >>
          /\ C14_Did(events[4]) = <<"spi_write", 0, call.args[2]>>
    /\ (C14_OnSpi /\ call.op = "send_data_slice") =>
          /\ Len(events) = 1
          /\ C14_Did(events[1]) = <<"spi_write", 0, call.args[1]>>
          /\ events[1].ok <=> result = "Ok"

\* a command without arguments: the empty args are written all the same
C14_Witness ==
    /\ C14_OnSpi /\ call.op = "send_command" /\ result = "Ok"
    /\ call.args[2] = << >>
    /\ Len(events) = 4 /\ events[4].ev = "spi_write"

C15_OnParallel == phase = "interface" /\ kind \in {"Parallel8Bit", "Parallel16Bit"}

\* the events of one write pulse for `word`, starting at position i
C15_Pulse(i, word) ==
    /\ i + 2 <= Len(events)
    /\ C14_Did(events[i]) = <<"wr_low", 0, << >> >>
    /\ C14_Did(events[i + 1]) = <<"set_value", word, << >> >>
    /\ C14_Did(events[i + 2]) = <<"wr_high", 0, << >> >>

C15_Pulses == Cardinality({i \in 1..Len(events) : events[i].ev = "set_value"})

\* C15: on the parallel bus every word is one write pulse (strobe low, set
\* value, strobe high).  A successful send_command drives the command/data
\* line low, sends the opcode as one pulse and, only when args is non-empty,
\* drives the line high and sends each argument as one pulse, in order:
\* 1 + len(args) pulses.  A successful send_data_slice sends len(data) pulses
\* in slice order and nothing else.
C15_ParallelPulses ==
    /\ (C15_OnParallel /\ call.op = "send_command" /\ result = "Ok") =>
          LET command == call.args[1]
              args == call.args[2]
          IN  /\ \A i \in 1..Len(events) : events[i].ok
              /\ C14_Did(events[1]) = <<"dc_low", 0, << >> >>
              /\ C15_Pulse(2, command)
              /\ args = << >> => Len(events) = 4
              /\ args # << >> =>
                    /\ Len(events) = 5 + 3 * Len(args)
                    /\ C14_Did(events[5]) = <<"dc_high", 0, << >> >>
                    /\ \A j \in 1..Len(args) : C15_Pulse(3 + 3 * j, args[j])
              /\ C15_Pulses = 1 + Len(args)
    /\ (C15_OnParallel /\ call.op = "send_data_slice" /\ result = "Ok") =>
          LET data == call.args[1] IN
          /\ \A i \in 1..Len(events) : events[i].ok
          /\ Len(events) = 3 * Len(data)
          /\ \A j \in 1..Len(data) : C15_Pulse(3 * j - 2, data[j])
          /\ C15_Pulses = Len(data)

\* a command with two arguments: three pulses
C15_Witness ==
    /\ C15_OnParallel /\ call.op = "send_command" /\ result = "Ok"
    /\ Len(call.args[2]) = 2
    /\ C15_Pulses = 3
    /\ C15_Pulse(9, call.args[2][2])

\* what the call on the interface does when every operation succeeds
C16_Complete ==
    LET spi == kind = "Serial4Line" IN
    IF call.op = "send_command"
    THEN IF spi THEN SpiSendCommandPlan(call.args[1], call.args[2])
                ELSE ParallelSendCommandPlan(call.args[1], call.args[2])
    ELSE IF spi THEN SpiSendDataPlan(call.args[1])
                ELSE ParallelSendDataPlan(call.args[1])

C16_ErrorOf(e) ==
    IF e.ev \in {"dc_low", "dc_high"} THEN "Err(Dc)"
    ELSE IF e.ev \in {"wr_low", "wr_high"} THEN "Err(Wr)"
    ELSE IF e.ev = "set_value" THEN "Err(Bus)"
    ELSE "Err(Spi)"

\* C16: in send_command and send_data_slice of both buses the first failing
\* pin or bus operation ends the call with its error: it is the last operation
\* of the call (nothing later is performed, it is not retried, nothing is
\* undone), what came before is what a successful call does up to there, a
\* failed set_value leaves the strobe low and a failure after the opcode
\* leaves the opcode transmitted.
C16_FirstFailureEnds ==
    (phase = "interface" /\ call.op \in {"send_command", "send_data_slice"}) =>
        LET n == Len(events) IN
        /\ result = "Ok" <=> \A i \in 1..n : events[i].ok
        /\ result = "Ok" => n = Len(C16_Complete)
        /\ \A i \in 1..n :
              /\ i <= Len(C16_Complete) /\ C14_Did(events[i]) = C14_Did(C16_Complete[i])
              /\ ~events[i].ok => (i = n /\ result = C16_ErrorOf(events[i]))
        /\ (n >= 1 /\ ~events[n].ok /\ events[n].ev = "set_value") =>
              /\ events[n - 1].ev = "wr_low" /\ events[n - 1].ok
        /\ (call.op = "send_command" /\ ~events[n].ok
                /\ n >= (IF kind = "Serial4Line" THEN 3 ELSE 4)) =>
              \E i \in 1..(n - 1) :
                 /\ events[i].ok
                 /\ \/ C14_Did(events[i]) = <<"spi_write", 0, <<call.args[1]>> >>
                    \/ C14_Did(events[i]) = <<"set_value", call.args[1], << >> >>

\* a set_value that fails on an argument word: the opcode was sent, the strobe
\* is left low and the remaining argument is not sent
C16_Witness ==
    /\ C15_OnParallel /\ call.op = "send_command" /\ result = "Err(Bus)"
    /\ Len(call.args[2]) = 2
    /\ Len(events) = 7
    /\ events[7].ev = "set_value" /\ ~events[7].ok
    /\ events[6].ev = "wr_low"

\* a step of Display::release
C17_Release ==
    (phase = "display" /\ phase' = "released") =>
        /\ events' = << >>
        /\ <<model', kind', rst'>> = <<model, kind, rst>>
        /\ result' = (IF built.rst THEN "(di, model, Some(rst))" ELSE "(di, model, None)")

\* a step of Builder::init that returns a Display, on a builder made of the
\* parts release returned and given the configuration and the pin (if any) the
\* released Display was built with
C17_Rebuild ==
    (/\ phase = "builder" /\ built.some
     /\ options = built.options /\ rst = built.rst
     /\ phase' = "display") =>
        /\ options' = built.options
        /\ madctl' = built.madctl
        /\ sleeping' = FALSE
        /\ <<model', kind', rst'>> = <<model, kind, built.rst>>
        /\ built'.again

C18_Bounds ==
    phase = "display" =>
        /\ options.display_size[1] <= FRAMEBUFFER_SIZE(model)[1]
        /\ options.display_size[2] <= FRAMEBUFFER_SIZE(model)[2]
        /\ options.display_offset[1] + options.display_size[1] <= FRAMEBUFFER_SIZE(model)[1]
        /\ options.display_offset[2] + options.display_size[2] <= FRAMEBUFFER_SIZE(model)[2]

C18_Step ==
    (phase = "display" /\ phase' = "display") =>
        /\ options'.display_size = options.display_size
        /\ options'.display_offset = options.display_offset
        /\ model' = model

\* C18: in every state of a Display, after any successful or failed
\* operation, display_size <= FRAMEBUFFER_SIZE and display_offset +
\* display_size <= FRAMEBUFFER_SIZE on both axes: Builder::init establishes
\* the bounds and no operation of the Display changes size or offset.
C18_SizeInvariant == []C18_Bounds /\ [][C18_Step]_vars

\* a Display that fills the framebuffer width exactly, after a failed
\* set_orientation that changed its orientation
C18_Witness ==
    /\ phase = "display"
    /\ call.op = "set_orientation" /\ result = "Err(Interface)"
    /\ options.orientation # DefaultOrientation
    /\ options.display_offset[1] > 0
    /\ options.display_offset[1] + options.display_size[1] = FRAMEBUFFER_SIZE(model)[1]

\* the operation `op` can be called and, when step f of `plan` fails, performs
\* `plan` up to that step and returns the matching result: an outcome given by
\* the configuration and the arguments alone
C19_Does(op, plan, f) ==
    CanFail(plan, f) =>
        ENABLED (/\ op
                 /\ events' = Exec(plan, f)
                 /\ result' = (IF f = 0 THEN "Ok" ELSE "Err(Interface)"))

\* C19: the sleeping flag gates nothing.  In every state of a Display, asleep
\* or awake, each operation is enabled, and the events it emits and the result
\* it returns are those fixed by the model, the configuration and the
\* arguments: the same for two Displays that differ only in the flag.
C19_FlagGatesNothing ==
    phase = "display" =>
        /\ \A r \in TwinRects, p \in PixelInputs, f \in 0..4 :
              C19_Does(show_raw_data(r[1], r[2], r[3], r[4], p, f),
                       ShowRawDataPlan(model, options, r[1], r[2], r[3], r[4], p), f)
        /\ \A v \in TwinOrientations, f \in 0..1 :
              C19_Does(set_orientation(v, f),
                       By("Model::update_options",
                          update_options([options EXCEPT !.orientation = v])), f)
        /\ \A f \in 0..2 :
              /\ C19_Does(sleep(f), By("Model::sleep", Model_sleep), f)
              /\ C19_Does(wake(f), By("Model::wake", Model_wake), f)
        /\ \A te \in TearingEffect, f \in 0..1 :
              C19_Does(set_tearing_effect(te, f),
                       By("Model::set_tearing_effect", << SetTearingEffect(te) >>), f)
        /\ \A a \in ScrollInputs(model), f \in 0..1 :
              LET area == ScrollArea(model, a[1], a[2]) IN
              C19_Does(set_vertical_scroll_region(a[1], a[2], FALSE, f),
                       By("Model::set_vertical_scroll_region",
                          << SetScrollArea(area[1], area[2], area[3]) >>), f)
        /\ \A off \in {0, MaxCoord, U16_MAX}, f \in 0..1 :
              C19_Does(set_vertical_scroll_offset(off, f),
                       By("Model::set_vertical_scroll_offset", << SetScrollStart(off) >>), f)

\* pixels shown on a Display that is asleep
C19_Witness ==
    /\ phase = "display" /\ sleeping
    /\ call.op = "show_raw_data" /\ result = "Ok"
    /\ Len(events) = 4

\* C20: a Builder::init that fails validation (InvalidDisplaySize or
\* InvalidDisplayOffset) has performed no reset-pin operation, no delay and no
\* bus command; an init that performed anything had passed validation.
C20_ValidationFirst ==
    call.op = "init" =>
        /\ result \in {InvalidDisplaySize, InvalidDisplayOffset} => events = << >>
        /\ events # << >> =>
              /\ C4_SizeValid
              /\ options.display_size[1] + options.display_offset[1] <= FRAMEBUFFER_SIZE(model)[1]
              /\ options.display_size[2] + options.display_offset[2] <= FRAMEBUFFER_SIZE(model)[2]

\* a builder holding a reset pin, rejected for its offset
C20_Witness ==
    /\ call.op = "init" /\ result = InvalidDisplayOffset
    /\ rst
    /\ model.name = "RM67162"
    /\ events = << >>

\* the failing event of Builder::init, if any, is its last event
C21_Failed == Len(events) >= 1 /\ ~events[Len(events)].ok

\* C21: a failure during Builder::init is reported by its origin and stops the
\* sequence at once.  A failing set_low of the reset pin gives ResetPin with no
\* delay, no set_high and no panel init; a failing set_high gives ResetPin with
\* no 10 ms delay and no panel init; a failing SoftReset gives Interface with no
\* panel init; a bus error inside Model::init gives Interface; the
\* ConfigurationError of Model::init (UnsupportedInterface) is returned as
\* InvalidConfiguration with the same variant.
C21_InitErrorOrigin ==
    call.op = "init" =>
        LET n == Len(events) IN
        /\ \A i \in 1..n : ~events[i].ok => i = n
        /\ (C21_Failed /\ events[n].ev = "rst_low") =>
              /\ result = "Err(ResetPin)"
              /\ n = 1
        /\ (C21_Failed /\ events[n].ev = "rst_high") =>
              /\ result = "Err(ResetPin)"
              /\ n = 3
              /\ \A i \in 1..n : ~(events[i].ev = "delay" /\ events[i].op = 10000)
              /\ \A i \in 1..n : ~C5_IsInit(i)
        /\ (C21_Failed /\ C5_IsReset(n) /\ IsCmd(events[n], 1)) =>
              /\ result = "Err(Interface)"
              /\ n = 1
        /\ (C21_Failed /\ C5_IsInit(n)) =>
              /\ result = "Err(Interface)"
              /\ events[n].ev = "cmd"
        /\ result = "Err(ResetPin)" => (C21_Failed /\ events[n].ev \in {"rst_low", "rst_high"})
        /\ result = "Err(Interface)" => (C21_Failed /\ events[n].ev = "cmd")
        /\ (C7_Rejected /\ ~C21_Failed
                /\ result \notin {InvalidDisplaySize, InvalidDisplayOffset}) =>
              result = UnsupportedInterface
        /\ result = UnsupportedInterface => (C7_Rejected /\ ~C21_Failed)

\* the reset pin fails to rise: nothing after it is performed
C21_Witness ==
    /\ call.op = "init" /\ result = "Err(ResetPin)"
    /\ Len(events) = 3
    /\ events[3].ev = "rst_high" /\ ~events[3].ok

\* the plan of the Display operation last called, from its arguments and the
\* configuration it left
C22_Plan ==
    LET a == call.args IN
    CASE call.op = "show_raw_data" ->
            ShowRawDataPlan(model, options, a[1], a[2], a[3], a[4], a[5])
      [] call.op = "set_orientation" -> update_options(options)
      [] call.op = "sleep" -> Model_sleep
      [] call.op = "wake" -> Model_wake
      [] call.op = "set_tearing_effect" -> << SetTearingEffect(a[1]) >>
      [] call.op = "set_vertical_scroll_region" ->
            LET area == ScrollArea(model, a[1], a[2]) IN
            << SetScrollArea(area[1], area[2], area[3]) >>
      [] call.op = "set_vertical_scroll_offset" -> << SetScrollStart(a[1]) >>
      [] OTHER -> << >>

\* the level the command/data line was last driven to in a sequence of pin
\* and bus operations
C22_DcLine(wire) ==
    LET driven == {i \in 1..Len(wire) : wire[i].ev \in {"dc_low", "dc_high"}} IN
    IF driven = {} THEN "-"
    ELSE wire[CHOOSE i \in driven : \A j \in driven : j <= i].ev

\* a bus write of `bytes` that was started
C22_Wrote(bytes) ==
    \E i \in 1..Len(events) : events[i].ev = "spi_write" /\ events[i].args = bytes

\* an abandoned call has done what the operation does up to the pending bus
\* transfer or delay, and nothing more
C22_Abandoned ==
    result = "abandoned" =>
        LET wire == OnBus(kind, C22_Plan)
            q == Len(events)
        IN  /\ q >= 1 /\ q <= Len(wire)
            /\ events[q].ev \in {"spi_write", "delay"}
            /\ \A i \in 1..q : C14_Did(events[i]) = C14_Did(wire[i])

\* the step that abandons a call changes no field of the Display but the
\* orientation that set_orientation had stored before its bus write
C22_Step ==
    result' = "abandoned" =>
        /\ phase' = "display"
        /\ <<model', kind', rst', madctl', sleeping'>> = <<model, kind, rst, madctl, sleeping>>
        /\ options' = IF call'.op = "set_orientation"
                      THEN [options EXCEPT !.orientation = call'.args[1]]
                      ELSE options

\* the three results are reachable: on the serial bus, a Display as built can
\* take a step that abandons a call with the command/data line left low, one
\* that abandons show_raw_data with both address commands out and neither
\* memory write start nor pixel data begun, and one that abandons sleep with
\* EnterSleepMode out and the flag still false
C22_Reachable ==
    (phase = "display" /\ kind = "Serial4Line" /\ call.op = "init") =>
        /\ ENABLED (/\ AbandonedOps(TwinOrientations, TwinRects)
                    /\ C22_DcLine(events') = "dc_low")
        /\ ENABLED (/\ AbandonedOps(TwinOrientations, TwinRects)
                    /\ call'.op = "show_raw_data"
                    /\ Len(events') = 8
                    /\ events'[2].args = <<42>>
                    /\ events'[6].args = <<43>>
                    /\ \A i \in 1..Len(events') : events'[i].args # <<44>>)
        /\ ENABLED (/\ AbandonedOps(TwinOrientations, TwinRects)
                    /\ call'.op = "sleep"
                    /\ events'[2].args = <<16>>
                    /\ events'[Len(events')].ev = "delay"
                    /\ ~sleeping')

\* C22: there is no cancellation support.  A Display operation abandoned at a
\* suspension point (a bus transfer or a delay) has performed the operations
\* up to that point and no compensating pin or bus operation, and no field of
\* the Display changes afterwards.  Reachable results include a command left
\* in its command phase (command/data line low), an address window written
\* with no memory write start or pixel data following, and EnterSleepMode sent
\* while the sleeping flag is still false.
C22_NoCancellation == [](C22_Abandoned /\ C22_Reachable) /\ [][C22_Step]_vars

\* sleep abandoned during its settle delay: the command is out, the flag is
\* still false
C22_Witness ==
    /\ result = "abandoned" /\ call.op = "sleep"
    /\ kind = "Serial4Line"
    /\ Len(events) = 5
    /\ C22_Wrote(<<16>>)
    /\ events[5].ev = "delay"
    /\ ~sleeping

\* C23 as stated: on the serial and on the parallel bus, whenever
\* show_raw_data sends pixel words through send_data_slice, the command/data
\* line is high: it was driven high after the opcode of the memory write start
\* command and before the first pixel word.
C23_AsStated ==
    (/\ phase = "display" /\ call.op = "show_raw_data" /\ result = "Ok"
     /\ Len(events) = 4 /\ events[4].ev = "data" /\ events[4].args # << >>) =>
        C22_DcLine(OnBus(kind, SubSeq(events, 1, 3))) = "dc_high"

\* C24 as stated: for every width and height passed to Builder::display_size
\* (machine-word integers, also above 65535) the configuration holds exactly
\* that width and height, so that an init of the builder succeeds only if
\* 0 < width <= FRAMEBUFFER_SIZE.w and 0 < height <= FRAMEBUFFER_SIZE.h for the
\* values passed.
C24_AsStated ==
    phase = "builder" =>
        \A s \in SizeInputs(model) :
            ENABLED (/\ display_size(s[1], s[2])
                     /\ options'.display_size = <<s[1], s[2]>>
                     /\ BuildResult(model, kind, rst, options', 0) = "Ok" =>
                           /\ 0 < s[1] /\ s[1] <= FRAMEBUFFER_SIZE(model)[1]
                           /\ 0 < s[2] /\ s[2] <= FRAMEBUFFER_SIZE(model)[2])

C25_Agree == madctl = SetAddressModeFrom(options)

\* a step of set_orientation that returns the error of the bus: the new
\* orientation is stored, the one write was attempted with the value derived
\* from it, and the cached value is the old one
C25_Failed ==
    (phase = "display" /\ call'.op = "set_orientation" /\ result' # "Ok") =>
        /\ result' = "Err(Interface)"
        /\ options' = [options EXCEPT !.orientation = call'.args[1]]
        /\ madctl' = madctl
        /\ Len(events') = 1
        /\ IsCmd(events'[1], 54) /\ ~events'[1].ok
        /\ events'[1].args = <<SetAddressModeFrom(options')>>

\* C25 as stated: set_orientation does not roll back: when update_options fails
\* the error is returned, the new orientation is stored and the cached
\* address-mode value is the old one; the cached value and the configuration
\* then disagree (the orientation having changed) until a later
\* set_orientation succeeds.
C25_AsStated ==
    [][ /\ C25_Failed
        /\ (/\ phase = "display" /\ call'.op = "set_orientation" /\ result' # "Ok"
            /\ C25_Agree /\ call'.args[1] # options.orientation) => ~C25_Agree'
        /\ (/\ phase = "display" /\ phase' = "display" /\ ~C25_Agree
            /\ ~(call'.op = "set_orientation" /\ result' = "Ok")) => ~C25_Agree' ]_vars

\* C25, amended: set_orientation does not roll back: when update_options fails
\* the error is returned, the new orientation is stored and the cached
\* address-mode value is the old one.  If the cached value agreed with the
\* configuration before the call and the orientation changed, the two disagree
\* after it; no operation other than set_orientation changes either of them.
C25_NoRollback ==
    [][ /\ C25_Failed
        /\ (/\ phase = "display" /\ call'.op = "set_orientation" /\ result' # "Ok"
            /\ C25_Agree /\ call'.args[1] # options.orientation) => ~C25_Agree'
        /\ (phase = "display" /\ phase' = "display" /\ call'.op # "set_orientation") =>
              (options' = options /\ madctl' = madctl) ]_vars

\* a Display as built whose set_orientation failed: the orientation is the new
\* one, the cached value is the one of the build
C25_Witness ==
    /\ phase = "display"
    /\ call.op = "set_orientation" /\ result = "Err(Interface)"
    /\ options.orientation = call.args[1]
    /\ options.orientation # built.options.orientation
    /\ madctl = built.madctl
    /\ madctl = SetAddressModeFrom(built.options)
    /\ madctl # SetAddressModeFrom(options)

\* the positions of the bus commands with one of the opcodes ops
C26_Commands(ops) == {i \in 1..Len(events) : events[i].ev = "cmd" /\ events[i].op \in ops}

\* C26: in each bring-up sequence of the source (GC9107, ST7789, RM67162 and
\* the ILI948x init_common) a successful init writes exactly one address-mode
\* command (0x36), whose value is the one derived from the configuration, and
\* returns that value; it writes one invert-mode command, the one of the
\* configuration's color inversion, and its last bus command is display on.
C26_BringUpAddressMode ==
    (call.op = "Model::init" /\ result = "Ok") =>
        LET modes == C26_Commands({54})
            inverts == C26_Commands({32, 33})
            all == C26_Commands(0..255)
            last == CHOOSE i \in all : \A j \in all : j <= i
        IN  /\ \A i \in 1..Len(events) : events[i].ok
            /\ Cardinality(modes) = 1
            /\ \A i \in modes :
                  /\ events[i].args = <<SetAddressModeFrom(options)>>
                  /\ madctl = events[i].args[1]
            /\ Cardinality(inverts) = 1
            /\ \A i \in inverts :
                  /\ events[i].op = (IF options.invert_colors = "Inverted" THEN 33 ELSE 32)
                  /\ events[i].args = << >>
            /\ all # {}
            /\ IsCmd(events[last], 41) /\ events[last].args = << >>

\* init_common for a panel mounted rotated, with inverted colors
C26_Witness ==
    /\ call.op = "Model::init" /\ result = "Ok"
    /\ model.name = "ILI948x"
    /\ options.invert_colors = "Inverted"
    /\ options.orientation # DefaultOrientation
    /\ madctl # SetAddressModeDefault
    /\ IsCmd(events[3], 54) /\ events[3].args = <<madctl>>

\* C27 as stated: on every code path that writes the exit-sleep command
\* (Model::wake and the bring-up of GC9107, ST7789, RM67162 and the ILI948x
\* init_common), no further bus command is written until a settle delay of at
\* least 120 ms has elapsed after it.
C27_AsStated ==
    \A i \in 1..Len(events) :
        IsCmd(events[i], 17) =>
            \A j \in (i + 1)..Len(events) :
                events[j].ev = "cmd" =>
                    \E d \in (i + 1)..(j - 1) :
                        events[d].ev = "delay" /\ events[d].op >= 120000

\* the rectangle given to show_raw_data lies inside the logical size
C28_Inside ==
    LET a == call.args
        swapped == MemoryMappingFrom(options.orientation).swap_rows_and_columns
        w == IF swapped THEN options.display_size[2] ELSE options.display_size[1]
        h == IF swapped THEN options.display_size[1] ELSE options.display_size[2]
    IN  a[1] <= a[3] /\ a[3] < w /\ a[2] <= a[4] /\ a[4] < h

\* C28: in every state of a Display (any orientation set later included), for
\* every rectangle with sx <= ex < logical width and sy <= ey < logical height,
\* the window sent stays inside the panel memory: column end below
\* FRAMEBUFFER_SIZE.w and page end below FRAMEBUFFER_SIZE.h when rows and
\* columns are not swapped, column end below FRAMEBUFFER_SIZE.h and page end
\* below FRAMEBUFFER_SIZE.w when they are; no sum or difference is clamped.
C28_WindowInside ==
    (phase = "display" /\ call.op = "show_raw_data" /\ Len(events) >= 2 /\ C28_Inside) =>
        LET a == call.args
            fb == FRAMEBUFFER_SIZE(model)
            swapped == MemoryMappingFrom(options.orientation).swap_rows_and_columns
            off == C2_Offset
            sent == C13_SentWindow
        IN  /\ IsCmd(events[1], 42) /\ IsCmd(events[2], 43)
            /\ sent[3] < (IF swapped THEN fb[2] ELSE fb[1])
            /\ sent[4] < (IF swapped THEN fb[1] ELSE fb[2])
            /\ off[1] >= 0 /\ off[2] >= 0
            /\ sent = <<a[1] + off[1], a[2] + off[2], a[3] + off[1], a[4] + off[2]>>

\* the whole of an inset display, in an orientation set after the build that
\* swaps rows and columns and reverses both: the window ends at the last
\* column of the panel memory
C28_Witness ==
    /\ phase = "display" /\ call.op = "show_raw_data" /\ result = "Ok" /\ C28_Inside
    /\ options.orientation # built.options.orientation
    /\ LET mapping == MemoryMappingFrom(options.orientation) IN
          mapping.swap_rows_and_columns /\ mapping.reverse_rows /\ mapping.reverse_columns
    /\ options.display_offset[1] > 0
    /\ call.args[3] = options.display_size[2] - 1
    /\ call.args[1] = 0
    /\ C13_SentWindow[4] = FRAMEBUFFER_SIZE(model)[1] - options.display_offset[1] - 1

\* the call of the step wrote the command `op` on the bus
C29_Wrote(op) == \E i \in 1..Len(events) : IsCmd(events[i], op) /\ events[i].ok

\* right after the build the flag is false
C29_Built == (phase = "display" /\ call.op = "init") => ~sleeping

\* a Display operation that returns Ok: sleep writes EnterSleepMode and leaves
\* the flag true, wake writes ExitSleepMode and leaves it false, and every
\* other operation writes neither command and leaves the flag as it was
C29_Step ==
    (phase = "display" /\ phase' = "display" /\ result' = "Ok") =>
        /\ call'.op = "sleep" => (C29_Wrote(16)' /\ ~C29_Wrote(17)' /\ sleeping')
        /\ call'.op = "wake" => (C29_Wrote(17)' /\ ~C29_Wrote(16)' /\ ~sleeping')
        /\ call'.op \notin {"sleep", "wake"} =>
              (~C29_Wrote(16)' /\ ~C29_Wrote(17)' /\ sleeping' = sleeping)

\* C29: after any sequence of Display operations that all returned Ok,
\* is_sleeping() is true exactly when the most recent sleep-related command
\* written by Display::sleep or Display::wake was EnterSleepMode, and it is
\* false right after the build: the flag starts false, each successful sleep or
\* wake writes its command and sets the flag to match, and no other successful
\* operation writes either command or changes the flag.
C29_FlagFollowsCommand == []C29_Built /\ [][C29_Step]_vars

\* a Display put to sleep, with a later successful operation that is neither
\* sleep nor wake
C29_Witness ==
    /\ phase = "display"
    /\ call.op = "set_tearing_effect" /\ result = "Ok"
    /\ sleeping

\* the one command of a pass-through operation
C30_Opcode ==
    CASE call.op = "set_vertical_scroll_region" -> 51
      [] call.op = "set_vertical_scroll_offset" -> 55
      [] call.op = "set_tearing_effect" -> 53
      [] OTHER -> -1

C30_OneCommand ==
    (phase = "display" /\ C30_Opcode # -1) =>
        /\ Len(events) = 1
        /\ IsCmd(events[1], C30_Opcode)

C30_Frame ==
    (/\ phase = "display"
     /\ call'.op \in {"show_raw_data", "set_vertical_scroll_region",
                      "set_vertical_scroll_offset", "set_tearing_effect"}) =>
        <<options', madctl', sleeping'>> = <<options, madctl, sleeping>>

\* C30 as stated: show_raw_data, set_vertical_scroll_region,
\* set_vertical_scroll_offset and set_tearing_effect leave the configuration,
\* the cached address-mode value and the sleeping flag unchanged, whether they
\* succeed or fail; each of the last three writes exactly one command (scroll
\* area 0x33, scroll start 0x37, tearing effect 0x35) and nothing else.
C30_AsStated == []C30_OneCommand /\ [][C30_Frame]_vars

---------------------------------------------------------------------------
(* C31 *)

\* the configuration Builder::new is claimed to hold for the panel m
C31_Defaults(m) ==
    [color_order    |-> "Rgb",
     orientation    |-> [rotation |-> "Deg0", mirrored |-> FALSE],
     invert_colors  |-> "Normal",
     refresh_order  |-> [vertical |-> "TopToBottom", horizontal |-> "LeftToRight"],
     display_size   |-> FRAMEBUFFER_SIZE(m),
     display_offset |-> <<0, 0>>]

\* the fields of the configuration in which two configurations differ
C31_Changed(o, p) == {fld \in DOMAIN o : o[fld] # p[fld]}

\* the builder as Builder::new made it: nothing done yet, no reset pin, the
\* default configuration over the whole framebuffer
C31_New ==
    /\ phase = "builder"
    /\ ~rst
    /\ options = C31_Defaults(model)
    /\ events = << >>
    /\ call = NoCall

\* a builder in the state Builder::new leaves it in, handed to init, passes
\* both checks and starts with the SoftReset command, the reset pin untouched
C31_InitOfNew ==
    (/\ phase = "builder" /\ ~rst /\ options = C31_Defaults(model)
     /\ FRAMEBUFFER_SIZE(model)[1] > 0 /\ FRAMEBUFFER_SIZE(model)[2] > 0
     /\ phase' # "builder")
        => /\ result' \notin {InvalidDisplaySize, InvalidDisplayOffset}
           /\ Len(events') >= 1
           /\ events'[1] = [SoftReset EXCEPT !.by = "reset", !.ok = events'[1].ok]
           /\ \A i \in 1..Len(events') : events'[i].ev \notin {"rst_low", "rst_high"}

\* a setter or reset_pin: the builder stays a builder on the same bus and
\* panel; either the reset pin is given and the configuration is the same, or
\* the pin is as before and at most one field of the configuration differs
C31_Setter ==
    (phase = "builder" /\ phase' = "builder")
        => /\ model' = model /\ kind' = kind
           /\ \/ rst' /\ options' = options
              \/ rst' = rst /\ Cardinality(C31_Changed(options, options')) <= 1

\* C31: a builder from Builder::new holds the full framebuffer size, offset
\* (0,0), the default color order, orientation, inversion and refresh order
\* and no reset pin; its init passes validation and takes the soft-reset
\* path; each setter changes only its own field, and reset_pin keeps bus,
\* panel and configuration unchanged.
C31_NewBuilder == C31_New /\ [][C31_InitOfNew /\ C31_Setter]_vars

\* a new builder was initialised as it was, and the Display came out of the
\* soft-reset path with the default configuration
C31_Witness ==
    /\ phase = "display"
    /\ call.op = "init"
    /\ result = "Ok"
    /\ ~rst
    /\ options = C31_Defaults(model)
    /\ events[1].op = 1

---------------------------------------------------------------------------
(* C32 *)

\* the byte positions (from 0) the claim gives to the pixel (x, y) of fb
C32_BytesOf(fb, x, y) ==
    LET n == BYTES_PER_PIXEL(fb.color) IN
    {(y * fb.width + x) * n + k : k \in 0..(n - 1)}

C32_Inside(fb, x, y) == 0 <= x /\ x < fb.width /\ 0 <= y /\ y < fb.height

\* the pixels of a draw_iter call that lie inside the buffer's bounds
C32_Drawn(fb, pixels) == {j \in 1..Len(pixels) : C32_Inside(fb, pixels[j].x, pixels[j].y)}

\* draw_iter: the bytes of every pixel inside the bounds stand at the pixel's
\* byte index (those of the last pixel given for that place), and every byte
\* that belongs to no such pixel is as it was
C32_DrawIter ==
    call'.op = "draw_iter" =>
        LET fb == framebuf
            pixels == call'.args
            n == BYTES_PER_PIXEL(fb.color)
            last(j) == \A l \in C32_Drawn(fb, pixels) :
                          (pixels[l].x = pixels[j].x /\ pixels[l].y = pixels[j].y) => l <= j
        IN  /\ \A j \in C32_Drawn(fb, pixels) :
                  LET byte_index == (pixels[j].y * fb.width + pixels[j].x) * n IN
                  /\ byte_index + n <= Len(fb.buffer)
                  /\ last(j) => \A k \in 1..n :
                        framebuf'.buffer[byte_index + k]
                            = into_raw_bytes(fb.color, pixels[j].color)[k]
            /\ \A i \in 1..Len(fb.buffer) :
                  (\A j \in C32_Drawn(fb, pixels) :
                        (i - 1) \notin C32_BytesOf(fb, pixels[j].x, pixels[j].y))
                     => framebuf'.buffer[i] = fb.buffer[i]

\* draw_iter, clear, fill_solid: no byte at or beyond width * height * N changes
C32_Beyond ==
    call'.op \in {"draw_iter", "clear", "fill_solid"} =>
        \A i \in 1..Len(framebuf.buffer) :
            (i - 1) >= framebuf.width * framebuf.height * BYTES_PER_PIXEL(framebuf.color)
                => framebuf'.buffer[i] = framebuf.buffer[i]

\* fill_solid: a byte that changes belongs to a pixel inside both the area
\* and the buffer's bounds
C32_FillSolid ==
    call'.op = "fill_solid" =>
        LET fb == framebuf
            area == call'.args[1]
        IN  \A i \in 1..Len(fb.buffer) :
                framebuf'.buffer[i] # fb.buffer[i] =>
                    \E x \in Max(area.x, 0)..(Min(area.x + area.width, fb.width) - 1),
                       y \in Max(area.y, 0)..(Min(area.y + area.height, fb.height) - 1) :
                        (i - 1) \in C32_BytesOf(fb, x, y)

\* C32: draw_iter writes every pixel with 0 <= x < width and 0 <= y < height
\* at byte index (y * width + x) * N, ignores the pixels outside and changes
\* no other byte; no draw_iter, clear or fill_solid writes at or beyond byte
\* index width * height * N; fill_solid changes only bytes of pixels inside
\* the intersection of the area with the buffer's bounds.
C32_AsStated == [][C32_DrawIter /\ C32_Beyond /\ C32_FillSolid]_vars

---------------------------------------------------------------------------
(* C33 *)

====
